---- MODULE Spec2Model ----
(***************************************************************************)
(* Recommendation engine of cloud-cost-optimization-tools:                 *)
(*   aws/optimizers/ec2_optimizer.py   (EC2Optimizer)                      *)
(*   azure/optimizers/vm_optimizer.py  (VMOptimizer)                       *)
(*   aws/optimizers/s3_optimizer.py    (S3Optimizer)                       *)
(*                                                                         *)
(* Units.  Python floats are modelled by exact integers:                   *)
(*   - hourly prices and monthly savings of EC2/VM rules: 1e-4 USD         *)
(*     (0.0832 USD/h is 832, "24 * 30" is 720);                            *)
(*   - CPU percentages: tenths of a percent (5.0 % is 50); an average is   *)
(*     kept as the exact fraction sum/n of its datapoints;                 *)
(*   - uptime: whole hours;                                                *)
(*   - S3 sizes: blocks of 64 MiB (128 MiB is 2, 1 GiB is 16); S3 rates:   *)
(*     1e-6 USD per GiB-month, so S3 savings are in 1e-6/16 USD.           *)
(* A Python str that the code splits on '.' is the sequence of its         *)
(* dot-free parts ("t3.xlarge" is <<"t3", "xlarge">>); None is <<>>.       *)
(***************************************************************************)
EXTENDS Integers, Sequences, FiniteSets, TLC

VARIABLES
    min_cpu_utilization,   \* EC2Optimizer/VMOptimizer.min_cpu_utilization
    min_uptime_hours,      \* EC2Optimizer/VMOptimizer.min_uptime_hours
    s3_thresholds,         \* S3Optimizer.*_threshold_days and min_size_mb
    call,                  \* the method that ran last ("none" after construction)
    args,                  \* what it was given (the inventory the collaborators returned)
    result,                \* [raised |-> BOOLEAN, value |-> the list it returned]
    ec2_client,            \* EC2Optimizer.ec2_client: the region the client is bound to
    cloudwatch_client,     \* EC2Optimizer.cloudwatch_client: likewise
    tasks                  \* region -> the position and locals of the task that
                           \* evaluates it (<<>> when the regions run in the loop)

vars == <<min_cpu_utilization, min_uptime_hours, s3_thresholds, call, args, result,
          ec2_client, cloudwatch_client, tasks>>

(***************************************************************************)
(* Generic helpers                                                         *)
(***************************************************************************)
NoneType == <<>>

Returned(v) == [raised |-> FALSE, value |-> v]

Raised == [raised |-> TRUE, value |-> <<>>]

RECURSIVE SumSeq(_)
SumSeq(s) == IF s = <<>> THEN 0 ELSE Head(s) + SumSeq(Tail(s))

\* Sequences over S of length 0..n
SeqsUpTo(S, n) == UNION {[1..k -> S] : k \in 0..n}

\* an average sum/n compared with an integer threshold t (n > 0)
AvgLt(avg, t) == avg.sum < t * avg.n

NoData == [sum |-> 0, n |-> 0]

IsNone(avg) == avg.n = 0

(***************************************************************************)
(* EC2Optimizer: tables                                                    *)
(***************************************************************************)
ec2_size_map_with_upgrade ==
    [s \in {"xlarge", "large", "medium", "2xlarge", "4xlarge", "8xlarge", "16xlarge",
            "12xlarge", "24xlarge", "10xlarge", "6xlarge", "3xlarge"} |->
        CASE s = "xlarge"   -> "large"
          [] s = "large"    -> "medium"
          [] s = "medium"   -> "large"
          [] s = "2xlarge"  -> "xlarge"
          [] s = "4xlarge"  -> "2xlarge"
          [] s = "8xlarge"  -> "4xlarge"
          [] s = "16xlarge" -> "8xlarge"
          [] s = "12xlarge" -> "6xlarge"
          [] s = "24xlarge" -> "12xlarge"
          [] s = "10xlarge" -> "4xlarge"
          [] s = "6xlarge"  -> "3xlarge"
          [] s = "3xlarge"  -> "xlarge"]

\* _recommend_instance_type: size_map
ec2_size_map ==
    [s \in {"xlarge", "large", "medium", "2xlarge", "4xlarge", "8xlarge", "16xlarge",
            "12xlarge", "24xlarge", "10xlarge", "6xlarge", "3xlarge"} |->
        CASE s = "xlarge"   -> "large"
          [] s = "large"    -> "medium"
          [] s = "medium"   -> "small"
          [] s = "2xlarge"  -> "xlarge"
          [] s = "4xlarge"  -> "2xlarge"
          [] s = "8xlarge"  -> "4xlarge"
          [] s = "16xlarge" -> "8xlarge"
          [] s = "12xlarge" -> "6xlarge"
          [] s = "24xlarge" -> "12xlarge"
          [] s = "10xlarge" -> "4xlarge"
          [] s = "6xlarge"  -> "3xlarge"
          [] s = "3xlarge"  -> "xlarge"]

\* the pricing dict of _calculate_downsizing_savings and _get_instance_hourly_cost
\* (the two literals are identical), USD/h * 1e4
ec2_pricing ==
    (<<"t3", "nano">> :> 52) @@ (<<"t3", "micro">> :> 104) @@ (<<"t3", "small">> :> 208) @@
    (<<"t3", "medium">> :> 416) @@ (<<"t3", "large">> :> 832) @@ (<<"t3", "xlarge">> :> 1664) @@
    (<<"t3", "2xlarge">> :> 3328) @@
    (<<"m5", "large">> :> 960) @@ (<<"m5", "xlarge">> :> 1920) @@ (<<"m5", "2xlarge">> :> 3840) @@
    (<<"m5", "4xlarge">> :> 7680) @@ (<<"m5", "8xlarge">> :> 15360) @@
    (<<"m5", "12xlarge">> :> 23040) @@ (<<"m5", "16xlarge">> :> 30720) @@
    (<<"m5", "24xlarge">> :> 46080) @@
    (<<"c5", "large">> :> 850) @@ (<<"c5", "xlarge">> :> 1700) @@ (<<"c5", "2xlarge">> :> 3400) @@
    (<<"c5", "4xlarge">> :> 6800) @@ (<<"c5", "9xlarge">> :> 15300) @@
    (<<"c5", "12xlarge">> :> 20400) @@ (<<"c5", "18xlarge">> :> 30600) @@
    (<<"c5", "24xlarge">> :> 40800) @@
    (<<"r5", "large">> :> 1260) @@ (<<"r5", "xlarge">> :> 2520) @@ (<<"r5", "2xlarge">> :> 5040) @@
    (<<"r5", "4xlarge">> :> 10080) @@ (<<"r5", "8xlarge">> :> 20160) @@
    (<<"r5", "12xlarge">> :> 30240) @@ (<<"r5", "16xlarge">> :> 40320) @@
    (<<"r5", "24xlarge">> :> 60480)

\* size_multipliers of _calculate_downsizing_savings, times 4 (nano 0.25 is 1);
\* only ratios of two multipliers are used
ec2_size_multipliers ==
    [s \in {"nano", "micro", "small", "medium", "large", "xlarge", "2xlarge", "4xlarge",
            "8xlarge", "12xlarge", "16xlarge", "24xlarge"} |->
        CASE s = "nano"     -> 1
          [] s = "micro"    -> 2
          [] s = "small"    -> 4
          [] s = "medium"   -> 8
          [] s = "large"    -> 16
          [] s = "xlarge"   -> 32
          [] s = "2xlarge"  -> 64
          [] s = "4xlarge"  -> 128
          [] s = "8xlarge"  -> 256
          [] s = "12xlarge" -> 384
          [] s = "16xlarge" -> 512
          [] s = "24xlarge" -> 768]

\* dict.get(key, default)
DictGet(d, k, default) == IF k \in DOMAIN d THEN d[k] ELSE default

(***************************************************************************)
(* EC2Optimizer: rules                                                     *)
(*                                                                         *)
(* An instance, as _get_instances shapes it together with what CloudWatch  *)
(* answers for it:                                                         *)
(*   [instance_id, instance_type, launch_time, metric]                     *)
(*   instance_type : the parts of the type string, NoneType for None       *)
(*   launch_time   : <<>> for None, <<h>> for a launch h hours before now  *)
(*   metric        : [fails |-> get_metric_statistics raises,              *)
(*                    datapoints |-> sequence of datapoints: <<v>> holds   *)
(*                    'Average' v, <<>> is a datapoint without the key]    *)
(***************************************************************************)
\* dp.get('Average', 0)
DatapointAverage(dp) == IF dp = <<>> THEN 0 ELSE dp[1]

RECURSIVE SumAverages(_)
SumAverages(dps) ==
    IF dps = <<>> THEN 0 ELSE DatapointAverage(Head(dps)) + SumAverages(Tail(dps))

ec2_average_zero_when_absent(instance) ==
    IF instance.metric.fails \/ instance.metric.datapoints = <<>>
    THEN [sum |-> 0, n |-> 1]
    ELSE [sum |-> SumAverages(instance.metric.datapoints),
          n   |-> Len(instance.metric.datapoints)]

\* EC2Optimizer._get_average_cpu_utilization: None (NoData) when the fetch
\* raises or there are no datapoints, else sum / len
ec2_get_average_cpu_utilization(instance) ==
    IF instance.metric.fails \/ instance.metric.datapoints = <<>>
    THEN NoData
    ELSE [sum |-> SumAverages(instance.metric.datapoints),
          n   |-> Len(instance.metric.datapoints)]

\* "family, size = current_type.split('.')" raises unless there are exactly two
\* parts; "'.' not in current_type" raises TypeError for None
ec2_recommend_raises(current_type) ==
    current_type = NoneType \/ Len(current_type) > 2

ec2_recommend_guessing(current_type, avg_cpu, min_cpu) ==
    IF Len(current_type) = 1
    THEN NoneType
    ELSE LET family == current_type[1]
             size   == current_type[2]
         IN IF AvgLt(avg_cpu, min_cpu)
            THEN <<family, IF size \in DOMAIN ec2_size_map THEN ec2_size_map[size]
                           ELSE "small">>
            ELSE NoneType

\* EC2Optimizer._recommend_instance_type; NoneType is the returned None.
\* Defined for types on which it does not raise.
ec2_recommend_instance_type(current_type, avg_cpu, min_cpu) ==
    IF Len(current_type) = 1
    THEN NoneType
    ELSE LET family == current_type[1]
             size   == current_type[2]
         IN IF size \in DOMAIN ec2_size_map /\ AvgLt(avg_cpu, min_cpu)
            THEN <<family, ec2_size_map[size]>>
            ELSE NoneType

\* (size_ratio - 1) * 30 * 24 * 0.1 with size_ratio = cur / rec, in 1e-4 USD
ec2_ratio_estimate(cur_mult, rec_mult) ==
    (720000 * (cur_mult - rec_mult)) \div rec_mult

\* EC2Optimizer._calculate_downsizing_savings, for types of one or two parts
ec2_calculate_downsizing_savings(current_type, recommended_type) ==
    LET current_hourly     == DictGet(ec2_pricing, current_type, 0)
        recommended_hourly == DictGet(ec2_pricing, recommended_type, 0)
        exact              == (current_hourly - recommended_hourly) * 24 * 30
    IN IF current_hourly = 0 \/ recommended_hourly = 0
       THEN IF Len(current_type) = 1 \/ Len(recommended_type) = 1
            THEN 0
            ELSE LET current_size     == current_type[2]
                     recommended_size == recommended_type[2]
                 IN IF current_size \in DOMAIN ec2_size_multipliers
                       /\ recommended_size \in DOMAIN ec2_size_multipliers
                    THEN ec2_ratio_estimate(ec2_size_multipliers[current_size],
                                            ec2_size_multipliers[recommended_size])
                    ELSE exact
       ELSE exact

\* _calculate_downsizing_savings raises when it reaches "'.' not in ..." with a
\* None, or the two-name unpacking of split('.') with more than two parts
ec2_calculate_raises(current_type, recommended_type) ==
    /\ (DictGet(ec2_pricing, current_type, 0) = 0
        \/ DictGet(ec2_pricing, recommended_type, 0) = 0)
    /\ \/ current_type = NoneType
       \/ Len(current_type) # 1 /\ recommended_type = NoneType
       \/ /\ current_type # NoneType /\ recommended_type # NoneType
          /\ Len(current_type) # 1 /\ Len(recommended_type) # 1
          /\ (Len(current_type) > 2 \/ Len(recommended_type) > 2)

ec2_hourly_cost_default_zero(instance_type) == DictGet(ec2_pricing, instance_type, 0)

\* EC2Optimizer._get_instance_hourly_cost
ec2_get_instance_hourly_cost(instance_type) == DictGet(ec2_pricing, instance_type, 1000)

\* 'High' if avg_cpu < bound else 'Medium'
ConfidenceInclusive(avg_cpu, bound) ==
    IF avg_cpu.sum <= bound * avg_cpu.n THEN "High" ELSE "Medium"

Confidence(avg_cpu, bound) == IF AvgLt(avg_cpu, bound) THEN "High" ELSE "Medium"

IsUnderutilizedNotIdle(avg_cpu, min_cpu) ==
    ~IsNone(avg_cpu) /\ AvgLt(avg_cpu, min_cpu) /\ ~AvgLt(avg_cpu, 10)

\* "avg_cpu is not None and avg_cpu < self.min_cpu_utilization"
IsUnderutilized(avg_cpu, min_cpu) == ~IsNone(avg_cpu) /\ AvgLt(avg_cpu, min_cpu)

IsIdleInclusive(avg_cpu) == ~IsNone(avg_cpu) /\ avg_cpu.sum <= 10 * avg_cpu.n

\* "avg_cpu is not None and avg_cpu < 1.0"
IsIdle(avg_cpu) == ~IsNone(avg_cpu) /\ AvgLt(avg_cpu, 10)

\* the recommendation dict; fields a rule does not set are NoneType / 0
Recommendation(id, region, rtype, cur, rec, count, avg, savings, conf) ==
    [resource_id |-> id, region |-> region, recommendation_type |-> rtype,
     current_type |-> cur, recommended_type |-> rec, count |-> count,
     avg_cpu |-> avg, estimated_monthly_savings |-> savings, confidence |-> conf]

\* the body of the loop of _find_underutilized_instances for one instance that
\* does not raise: the recommendations it appends
ec2_underutilized_one(instance, region, min_cpu) ==
    LET avg_cpu == ec2_get_average_cpu_utilization(instance)
    IN IF IsUnderutilized(avg_cpu, min_cpu)
       THEN LET recommended_type ==
                    ec2_recommend_instance_type(instance.instance_type, avg_cpu, min_cpu)
            IN IF recommended_type # NoneType /\ recommended_type # instance.instance_type
               THEN <<Recommendation(<<instance.instance_id>>, region, "Rightsize Instance",
                         instance.instance_type, recommended_type, 0, avg_cpu,
                         ec2_calculate_downsizing_savings(instance.instance_type,
                                                          recommended_type),
                         Confidence(avg_cpu, 20))>>
               ELSE <<>>
       ELSE <<>>

\* whether the loop body raises for this instance: _recommend_instance_type is
\* only called below the threshold
ec2_underutilized_raises(instance, min_cpu) ==
    LET avg_cpu == ec2_get_average_cpu_utilization(instance)
    IN IsUnderutilized(avg_cpu, min_cpu)
       /\ ec2_recommend_raises(instance.instance_type)

RECURSIVE ec2_underutilized_loop(_, _, _)
ec2_underutilized_loop(instances, region, min_cpu) ==
    IF instances = <<>> THEN <<>>
    ELSE ec2_underutilized_one(Head(instances), region, min_cpu)
         \o ec2_underutilized_loop(Tail(instances), region, min_cpu)

\* EC2Optimizer._find_underutilized_instances: an exception of one iteration
\* leaves the method, the list built so far is lost
ec2_find_underutilized_instances(instances, region, min_cpu) ==
    IF \E k \in 1..Len(instances) : ec2_underutilized_raises(instances[k], min_cpu)
    THEN Raised
    ELSE Returned(ec2_underutilized_loop(instances, region, min_cpu))

ec2_idle_one(instance, region) ==
    LET avg_cpu == ec2_get_average_cpu_utilization(instance)
    IN IF IsIdle(avg_cpu)
       THEN <<Recommendation(<<instance.instance_id>>, region, "Terminate Idle Instance",
                 instance.instance_type, NoneType, 0, avg_cpu,
                 ec2_get_instance_hourly_cost(instance.instance_type) * 24 * 30,
                 Confidence(avg_cpu, 5))>>
       ELSE <<>>

\* EC2Optimizer._find_idle_instances
RECURSIVE ec2_find_idle_instances(_, _)
ec2_find_idle_instances(instances, region) ==
    IF instances = <<>> THEN <<>>
    ELSE ec2_idle_one(Head(instances), region)
         \o ec2_find_idle_instances(Tail(instances), region)

\* EC2Optimizer._get_instance_uptime_hours
ec2_get_instance_uptime_hours(instance) ==
    IF instance.launch_time = <<>> THEN 0 ELSE instance.launch_time[1]

\* the first loop of _find_ri_opportunities: the keys of instance_types in
\* insertion order ...
RECURSIVE ec2_ri_types(_, _, _)
ec2_ri_types(instances, min_uptime, seen) ==
    IF instances = <<>> THEN seen
    ELSE LET t == Head(instances).instance_type
             counted == ec2_get_instance_uptime_hours(Head(instances)) >= min_uptime
         IN ec2_ri_types(Tail(instances), min_uptime,
                IF counted /\ ~(\E k \in 1..Len(seen) : seen[k] = t)
                THEN Append(seen, t) ELSE seen)

\* ... and the count it keeps for a key
ec2_ri_count(instances, min_uptime, t) ==
    Cardinality({k \in 1..Len(instances) :
        /\ instances[k].instance_type = t
        /\ ec2_get_instance_uptime_hours(instances[k]) >= min_uptime})

\* on_demand_monthly - on_demand_monthly * 0.6
ec2_ri_savings(hourly_cost, count) ==
    LET on_demand_monthly == hourly_cost * 24 * 30 * count
        ri_monthly        == (on_demand_monthly * 6) \div 10
    IN on_demand_monthly - ri_monthly

ri_confidence_from_five(count) == IF count >= 5 THEN "High" ELSE "Medium"

\* 'High' if count > 5 else 'Medium', in both groupers
ri_confidence(count) == IF count > 5 THEN "High" ELSE "Medium"

ec2_ri_one(t, count, region) ==
    IF count >= 2
    THEN <<Recommendation(<<"multiple_">> \o t, region, "Purchase Reserved Instances",
              t, t, count, NoData,
              ec2_ri_savings(ec2_get_instance_hourly_cost(t), count),
              ri_confidence(count))>>
    ELSE <<>>

RECURSIVE ec2_ri_loop(_, _, _, _)
ec2_ri_loop(types, instances, region, min_uptime) ==
    IF types = <<>> THEN <<>>
    ELSE ec2_ri_one(Head(types), ec2_ri_count(instances, min_uptime, Head(types)), region)
         \o ec2_ri_loop(Tail(types), instances, region, min_uptime)

\* EC2Optimizer._find_ri_opportunities
ec2_find_ri_opportunities(instances, region, min_uptime) ==
    ec2_ri_loop(ec2_ri_types(instances, min_uptime, <<>>), instances, region, min_uptime)

(***************************************************************************)
(* VMOptimizer: tables                                                     *)
(*                                                                         *)
(* A VM size name is prefix ++ digits ++ suffix, the prefix without a      *)
(* digit ("Standard_D2s_v3" is VmSize("Standard_D", 2, "s_v3")), so that   *)
(* re.search(r'(\d+)', name) yields num; num = -1 is a name without any    *)
(* digit.                                                                  *)
(***************************************************************************)
VmSize(p, n, s) == [prefix |-> p, num |-> n, suffix |-> s]

\* _recommend_vm_size: size_map
vm_size_map ==
    (VmSize("Standard_D", 2, "s_v3") :> VmSize("Standard_D", 1, "s_v3")) @@
    (VmSize("Standard_D", 4, "s_v3") :> VmSize("Standard_D", 2, "s_v3")) @@
    (VmSize("Standard_D", 8, "s_v3") :> VmSize("Standard_D", 4, "s_v3")) @@
    (VmSize("Standard_D", 16, "s_v3") :> VmSize("Standard_D", 8, "s_v3")) @@
    (VmSize("Standard_D", 32, "s_v3") :> VmSize("Standard_D", 16, "s_v3")) @@
    (VmSize("Standard_D", 64, "s_v3") :> VmSize("Standard_D", 32, "s_v3")) @@
    (VmSize("Standard_E", 2, "s_v3") :> VmSize("Standard_E", 1, "s_v3")) @@
    (VmSize("Standard_E", 4, "s_v3") :> VmSize("Standard_E", 2, "s_v3")) @@
    (VmSize("Standard_E", 8, "s_v3") :> VmSize("Standard_E", 4, "s_v3")) @@
    (VmSize("Standard_E", 16, "s_v3") :> VmSize("Standard_E", 8, "s_v3")) @@
    (VmSize("Standard_E", 32, "s_v3") :> VmSize("Standard_E", 16, "s_v3")) @@
    (VmSize("Standard_E", 64, "s_v3") :> VmSize("Standard_E", 32, "s_v3")) @@
    (VmSize("Standard_F", 2, "s_v2") :> VmSize("Standard_F", 1, "s_v2")) @@
    (VmSize("Standard_F", 4, "s_v2") :> VmSize("Standard_F", 2, "s_v2")) @@
    (VmSize("Standard_F", 8, "s_v2") :> VmSize("Standard_F", 4, "s_v2")) @@
    (VmSize("Standard_F", 16, "s_v2") :> VmSize("Standard_F", 8, "s_v2")) @@
    (VmSize("Standard_F", 32, "s_v2") :> VmSize("Standard_F", 16, "s_v2")) @@
    (VmSize("Standard_F", 64, "s_v2") :> VmSize("Standard_F", 32, "s_v2")) @@
    (VmSize("Standard_B", 2, "s") :> VmSize("Standard_B", 1, "s")) @@
    (VmSize("Standard_B", 2, "ms") :> VmSize("Standard_B", 1, "ms")) @@
    (VmSize("Standard_B", 4, "ms") :> VmSize("Standard_B", 2, "ms")) @@
    (VmSize("Standard_B", 8, "ms") :> VmSize("Standard_B", 4, "ms")) @@
    (VmSize("Standard_B", 12, "ms") :> VmSize("Standard_B", 8, "ms")) @@
    (VmSize("Standard_B", 16, "ms") :> VmSize("Standard_B", 12, "ms")) @@
    (VmSize("Standard_B", 20, "ms") :> VmSize("Standard_B", 16, "ms"))

\* the pricing dict of _calculate_downsizing_savings and _get_vm_hourly_cost
\* (the two literals are identical), USD/h * 1e4
vm_pricing ==
    (VmSize("Standard_D", 1, "s_v3") :> 768) @@
    (VmSize("Standard_D", 2, "s_v3") :> 1536) @@
    (VmSize("Standard_D", 4, "s_v3") :> 3072) @@
    (VmSize("Standard_D", 8, "s_v3") :> 6144) @@
    (VmSize("Standard_D", 16, "s_v3") :> 12288) @@
    (VmSize("Standard_D", 32, "s_v3") :> 24576) @@
    (VmSize("Standard_D", 64, "s_v3") :> 49152) @@
    (VmSize("Standard_E", 1, "s_v3") :> 768) @@
    (VmSize("Standard_E", 2, "s_v3") :> 1536) @@
    (VmSize("Standard_E", 4, "s_v3") :> 3072) @@
    (VmSize("Standard_E", 8, "s_v3") :> 6144) @@
    (VmSize("Standard_E", 16, "s_v3") :> 12288) @@
    (VmSize("Standard_E", 32, "s_v3") :> 24576) @@
    (VmSize("Standard_E", 64, "s_v3") :> 49152) @@
    (VmSize("Standard_F", 1, "s_v2") :> 500) @@
    (VmSize("Standard_F", 2, "s_v2") :> 1000) @@
    (VmSize("Standard_F", 4, "s_v2") :> 2000) @@
    (VmSize("Standard_F", 8, "s_v2") :> 4000) @@
    (VmSize("Standard_F", 16, "s_v2") :> 8000) @@
    (VmSize("Standard_F", 32, "s_v2") :> 16000) @@
    (VmSize("Standard_F", 64, "s_v2") :> 32000) @@
    (VmSize("Standard_B", 1, "s") :> 120) @@
    (VmSize("Standard_B", 1, "ms") :> 218) @@
    (VmSize("Standard_B", 2, "s") :> 436) @@
    (VmSize("Standard_B", 2, "ms") :> 832) @@
    (VmSize("Standard_B", 4, "ms") :> 1660) @@
    (VmSize("Standard_B", 8, "ms") :> 3330) @@
    (VmSize("Standard_B", 12, "ms") :> 4990) @@
    (VmSize("Standard_B", 16, "ms") :> 6660) @@
    (VmSize("Standard_B", 20, "ms") :> 8320)

(***************************************************************************)
(* VMOptimizer: rules                                                      *)
(*                                                                         *)
(* A VM, as _get_vms shapes it:                                            *)
(*   [id, name_hash, vm_size, location, power_state, age]                  *)
(*   name_hash : <<int(md5(name), 16)>>, <<>> for a name that cannot be    *)
(*               hashed (None)                                             *)
(*   age       : hours since the VM was created; _get_vms does not read    *)
(*               it and no rule receives it                                *)
(***************************************************************************)
\* VMOptimizer._get_average_cpu_utilization: (hash % 195) / 10.0 + 0.5, None
\* when hashing the name raises
vm_get_average_cpu_utilization(vm) ==
    IF vm.name_hash = <<>>
    THEN NoData
    ELSE [sum |-> (vm.name_hash[1] % 195) + 5, n |-> 1]

\* VMOptimizer._recommend_vm_size; NoneType is the returned None
vm_recommend_vm_size(current_size, avg_cpu, min_cpu) ==
    IF current_size \in DOMAIN vm_size_map /\ AvgLt(avg_cpu, min_cpu)
    THEN vm_size_map[current_size]
    ELSE NoneType

\* VMOptimizer._calculate_downsizing_savings
vm_calculate_downsizing_savings(current_size, recommended_size) ==
    LET priced_current     == DictGet(vm_pricing, current_size, 0)
        priced_recommended == DictGet(vm_pricing, recommended_size, 0)
        estimate == /\ (priced_current = 0 \/ priced_recommended = 0)
                    /\ current_size.num > 0
                    /\ recommended_size.num > 0
        current_hourly     == IF estimate THEN 1000 * current_size.num
                              ELSE priced_current
        recommended_hourly == IF estimate THEN 1000 * recommended_size.num
                              ELSE priced_recommended
    IN (current_hourly - recommended_hourly) * 24 * 30

\* VMOptimizer._get_vm_hourly_cost
vm_get_vm_hourly_cost(vm_size) == DictGet(vm_pricing, vm_size, 1000)

VMRecommendation(id, sub, region, rtype, cur, rec, count, avg, savings, conf) ==
    [resource_id |-> id, subscription_id |-> sub, region |-> region,
     recommendation_type |-> rtype, current_type |-> cur, recommended_type |-> rec,
     count |-> count, avg_cpu |-> avg, estimated_monthly_savings |-> savings,
     confidence |-> conf]

vm_underutilized_one(vm, sub, min_cpu) ==
    IF vm.power_state # "running" THEN <<>>
    ELSE
    LET avg_cpu == vm_get_average_cpu_utilization(vm)
    IN IF IsUnderutilized(avg_cpu, min_cpu)
       THEN LET recommended_size == vm_recommend_vm_size(vm.vm_size, avg_cpu, min_cpu)
            IN IF recommended_size # NoneType /\ recommended_size # vm.vm_size
               THEN <<VMRecommendation(<<vm.id>>, sub, vm.location, "Rightsize VM",
                         vm.vm_size, recommended_size, 0, avg_cpu,
                         vm_calculate_downsizing_savings(vm.vm_size, recommended_size),
                         Confidence(avg_cpu, 20))>>
               ELSE <<>>
       ELSE <<>>

\* VMOptimizer._find_underutilized_vms
RECURSIVE vm_find_underutilized_vms(_, _, _)
vm_find_underutilized_vms(vms, sub, min_cpu) ==
    IF vms = <<>> THEN <<>>
    ELSE vm_underutilized_one(Head(vms), sub, min_cpu)
         \o vm_find_underutilized_vms(Tail(vms), sub, min_cpu)

vm_idle_one(vm, sub) ==
    IF vm.power_state # "running" THEN <<>>
    ELSE
    LET avg_cpu == vm_get_average_cpu_utilization(vm)
    IN IF IsIdle(avg_cpu)
       THEN <<VMRecommendation(<<vm.id>>, sub, vm.location, "Stop or Deallocate Idle VM",
                 vm.vm_size, NoneType, 0, avg_cpu,
                 vm_get_vm_hourly_cost(vm.vm_size) * 24 * 30,
                 Confidence(avg_cpu, 5))>>
       ELSE <<>>

\* VMOptimizer._find_idle_vms
RECURSIVE vm_find_idle_vms(_, _)
vm_find_idle_vms(vms, sub) ==
    IF vms = <<>> THEN <<>>
    ELSE vm_idle_one(Head(vms), sub) \o vm_find_idle_vms(Tail(vms), sub)

\* whether _find_ri_opportunities counts the VM into its group
vm_ri_counted(vm) == vm.power_state = "running"

\* the first loop of _find_ri_opportunities: the keys of vm_groups in insertion
\* order; the key f"{vm_size}_{location}" is the pair (location names hold no '_')
RECURSIVE vm_ri_groups(_, _)
vm_ri_groups(vms, seen) ==
    IF vms = <<>> THEN seen
    ELSE LET key == <<Head(vms).vm_size, Head(vms).location>>
         IN vm_ri_groups(Tail(vms),
                IF vm_ri_counted(Head(vms)) /\ ~(\E k \in 1..Len(seen) : seen[k] = key)
                THEN Append(seen, key) ELSE seen)

\* group['vms']: the ids of the counted VMs of a group, in order
RECURSIVE vm_ri_members(_, _)
vm_ri_members(vms, key) ==
    IF vms = <<>> THEN <<>>
    ELSE (IF vm_ri_counted(Head(vms)) /\ <<Head(vms).vm_size, Head(vms).location>> = key
          THEN <<Head(vms).id>> ELSE <<>>)
         \o vm_ri_members(Tail(vms), key)

\* one_year_savings / three_year_savings by "count >= 5"
vm_ri_savings_above_five(hourly_cost, count) ==
    LET on_demand_monthly == hourly_cost * 24 * 30 * count
    IN IF count > 5 THEN (on_demand_monthly * 6) \div 10
       ELSE (on_demand_monthly * 35) \div 100

vm_ri_savings(hourly_cost, count) ==
    LET on_demand_monthly  == hourly_cost * 24 * 30 * count
        one_year_savings   == (on_demand_monthly * 35) \div 100
        three_year_savings == (on_demand_monthly * 6) \div 10
    IN IF count >= 5 THEN three_year_savings ELSE one_year_savings

\* ",".join(group['vms'][:3]) + "... and {count-3} more"
vm_ri_id(members) ==
    IF Len(members) > 3 THEN SubSeq(members, 1, 3) \o <<"... and more">> ELSE members

vm_ri_one(key, members, sub) ==
    LET count == Len(members)
    IN IF count >= 2
       THEN <<VMRecommendation(vm_ri_id(members), sub, key[2],
                 "Purchase Reserved Instances", key[1], key[1], count, NoData,
                 vm_ri_savings(vm_get_vm_hourly_cost(key[1]), count),
                 ri_confidence(count))>>
       ELSE <<>>

RECURSIVE vm_ri_loop(_, _, _)
vm_ri_loop(keys, vms, sub) ==
    IF keys = <<>> THEN <<>>
    ELSE vm_ri_one(Head(keys), vm_ri_members(vms, Head(keys)), sub)
         \o vm_ri_loop(Tail(keys), vms, sub)

\* VMOptimizer._find_ri_opportunities
vm_find_ri_opportunities(vms, sub) == vm_ri_loop(vm_ri_groups(vms, <<>>), vms, sub)

(***************************************************************************)
(* The ranking both optimizers end with:                                   *)
(* all_recommendations.sort(key=estimated_monthly_savings, reverse=True)   *)
(* list.sort is stable, and with reverse=True equal keys keep their order. *)
(***************************************************************************)
\* r goes before the first element with strictly smaller savings... of a list
\* already sorted: insertion keeps equal keys in arrival order
RECURSIVE InsertBeforeEqual(_, _)
InsertBeforeEqual(sorted, r) ==
    IF sorted = <<>> THEN <<r>>
    ELSE IF Head(sorted).estimated_monthly_savings > r.estimated_monthly_savings
         THEN <<Head(sorted)>> \o InsertBeforeEqual(Tail(sorted), r)
         ELSE <<r>> \o sorted

RECURSIVE InsertAsc(_, _)
InsertAsc(sorted, r) ==
    IF sorted = <<>> THEN <<r>>
    ELSE IF Head(sorted).estimated_monthly_savings <= r.estimated_monthly_savings
         THEN <<Head(sorted)>> \o InsertAsc(Tail(sorted), r)
         ELSE <<r>> \o sorted

RECURSIVE InsertDesc(_, _)
InsertDesc(sorted, r) ==
    IF sorted = <<>> THEN <<r>>
    ELSE IF Head(sorted).estimated_monthly_savings >= r.estimated_monthly_savings
         THEN <<Head(sorted)>> \o InsertDesc(Tail(sorted), r)
         ELSE <<r>> \o sorted

RECURSIVE SortSavingsFrom(_, _)
SortSavingsFrom(recs, sorted) ==
    IF recs = <<>> THEN sorted
    ELSE SortSavingsFrom(Tail(recs), InsertDesc(sorted, Head(recs)))

SortBySavingsDesc(recs) == SortSavingsFrom(recs, <<>>)

(***************************************************************************)
(* S3Optimizer: storage-class rule                                         *)
(*                                                                         *)
(* A bucket, as _get_buckets shapes it:                                    *)
(*   [name, size, last_accessed]                                           *)
(*   size          : metrics['size_bytes'] in blocks of 64 MiB             *)
(*   last_accessed : <<>> for None, <<d>> for a date d whole days before   *)
(*                   now ("(now - last_accessed).days")                    *)
(* s3_thresholds is [ia, glacier, deep_archive, min_size] with min_size in *)
(* the same blocks (min_size_mb = 128 is 2).                               *)
(***************************************************************************)
\* size_gb * (0.023 - rate) * 12
s3_tier_savings(size, rate) == size * (23000 - rate) * 12

\* S3Optimizer._calculate_ia_savings
s3_calculate_ia_savings(size) == s3_tier_savings(size, 12500)

\* S3Optimizer._calculate_glacier_savings
s3_calculate_glacier_savings(size) == s3_tier_savings(size, 4000)

\* S3Optimizer._calculate_deep_archive_savings
s3_calculate_deep_archive_savings(size) == s3_tier_savings(size, 990)

S3Recommendation(name, rtype, savings, days, class) ==
    [resource_id |-> name, recommendation_type |-> rtype, potential_savings |-> savings,
     days_since_access |-> days, recommended_storage_class |-> class]

\* the if / elif / else of _find_storage_class_opportunities, in its order:
\* the Glacier test comes first
s3_storage_class(days, th) ==
    IF days > th.glacier THEN "GLACIER"
    ELSE IF days > th.deep_archive THEN "DEEP_ARCHIVE"
    ELSE "STANDARD_IA"

s3_storage_class_savings(class, size) ==
    CASE class = "GLACIER"      -> s3_calculate_glacier_savings(size)
      [] class = "DEEP_ARCHIVE" -> s3_calculate_deep_archive_savings(size)
      [] OTHER                  -> s3_calculate_ia_savings(size)

s3_storage_class_above_floor(bucket, th) ==
    IF bucket.size <= th.min_size THEN <<>>
    ELSE IF bucket.last_accessed = <<>> THEN <<>>
    ELSE LET days == bucket.last_accessed[1]
         IN IF days > th.ia
            THEN LET class == s3_storage_class(days, th)
                 IN <<S3Recommendation(bucket.name, "Change Storage Class",
                        s3_storage_class_savings(class, bucket.size), days, class)>>
            ELSE <<>>

s3_storage_class_one(bucket, th) ==
    IF bucket.size < th.min_size THEN <<>>
    ELSE IF bucket.last_accessed = <<>> THEN <<>>
    ELSE LET days == bucket.last_accessed[1]
         IN IF days > th.ia
            THEN LET class == s3_storage_class(days, th)
                 IN <<S3Recommendation(bucket.name, "Change Storage Class",
                        s3_storage_class_savings(class, bucket.size), days, class)>>
            ELSE <<>>

\* S3Optimizer._find_storage_class_opportunities
RECURSIVE s3_find_storage_class_opportunities(_, _)
s3_find_storage_class_opportunities(buckets, th) ==
    IF buckets = <<>> THEN <<>>
    ELSE s3_storage_class_one(Head(buckets), th)
         \o s3_find_storage_class_opportunities(Tail(buckets), th)

(***************************************************************************)
(* S3Optimizer: metrics, lifecycle, versioning and unused-bucket rules     *)
(*                                                                         *)
(* What the APIs answer for a listed bucket:                               *)
(*   size, count : [fails, datapoints] of get_metric_statistics, a         *)
(*                 datapoint being its 'Average'                           *)
(*   last_modified : <<>> or <<d>>, the newest LastModified of the listing *)
(* A bucket, as _get_buckets shapes it for these rules:                    *)
(*   [name, size, object_count, last_accessed, has_lifecycle_policy,       *)
(*    rules, versioning]                                                   *)
(*   potential_savings of these rules' recommendations is an exact        *)
(*   fraction [num, den] of the S3 savings unit                            *)
(*   rules : the lifecycle rules, each [has_transitions ('Transitions' in  *)
(*           rule), transitions (their StorageClass values),               *)
(*           noncurrent ('NoncurrentVersionExpiration' in rule)]           *)
(***************************************************************************)
Last(seq) == seq[Len(seq)]

\* S3Optimizer._get_bucket_metrics: the defaults 0, 0, None stay for whatever
\* was not assigned before an exception or for a response without datapoints
s3_get_bucket_metrics(answer) ==
    LET size  == IF answer.size.fails \/ answer.size.datapoints = <<>>
                 THEN 0 ELSE Last(answer.size.datapoints)
        count == IF answer.size.fails \/ answer.count.fails
                    \/ answer.count.datapoints = <<>>
                 THEN 0 ELSE Last(answer.count.datapoints)
        seen  == IF answer.size.fails \/ answer.count.fails
                 THEN <<>> ELSE answer.last_modified
    IN [size_bytes |-> size, object_count |-> count, last_accessed |-> seen]

BucketDetails(name, metrics, lifecycle, versioning) ==
    [name |-> name, size |-> metrics.size_bytes, object_count |-> metrics.object_count,
     last_accessed |-> metrics.last_accessed,
     has_lifecycle_policy |-> lifecycle.has_lifecycle_policy, rules |-> lifecycle.rules,
     versioning |-> versioning]

\* S3Optimizer._get_bucket_lifecycle: answer is [fails, has_rules ('Rules' in
\* response), rules]
s3_get_bucket_lifecycle(answer) ==
    IF ~answer.fails /\ answer.has_rules
    THEN [has_lifecycle_policy |-> TRUE, rules |-> answer.rules]
    ELSE [has_lifecycle_policy |-> FALSE, rules |-> <<>>]

\* S3Optimizer._calculate_lifecycle_savings: 60 % / 30 % / 10 % of the size at
\* the IA / Glacier / Deep Archive differentials, times 12; the result times 10
\* is an integer in the S3 savings unit
s3_lifecycle_savings_x10(size) ==
    (size * 6 * (23000 - 12500) + size * 3 * (23000 - 4000) + size * 1 * (23000 - 990)) * 12

\* _calculate_lifecycle_savings in the S3 savings unit, as an exact fraction
\* [num, den]
s3_calculate_lifecycle_savings(size) == [num |-> s3_lifecycle_savings_x10(size), den |-> 10]

\* an integer amount of the S3 savings unit as a fraction
Exact(x) == [num |-> x, den |-> 1]

Whole(q) == q

\* "/ 2"
Halved(q) == [num |-> q.num, den |-> q.den * 2]

\* S3Optimizer._calculate_versioning_savings: size_gb * 0.5 * 0.023 * 12
s3_calculate_versioning_savings(size) == size * 11500 * 12

S3PolicyRecommendation(name, rtype, savings, transitions, missing) ==
    [resource_id |-> name, recommendation_type |-> rtype, potential_savings |-> savings,
     transitions |-> transitions, missing_transitions |-> missing]

\* some rule with a 'Transitions' key holds a transition to the class
s3_has_transition(rules, class) ==
    \E k \in 1..Len(rules) :
        /\ rules[k].has_transitions
        /\ \E t \in 1..Len(rules[k].transitions) : rules[k].transitions[t] = class

s3_lifecycle_one(bucket, th) ==
    IF bucket.size < th.min_size THEN <<>>
    ELSE IF ~bucket.has_lifecycle_policy
    THEN <<S3PolicyRecommendation(bucket.name, "Add Lifecycle Policy",
              s3_calculate_lifecycle_savings(bucket.size),
              <<<<th.ia, "STANDARD_IA">>, <<th.glacier, "GLACIER">>,
                <<th.deep_archive, "DEEP_ARCHIVE">>>>, <<>>)>>
    ELSE LET has_ia_transition           == s3_has_transition(bucket.rules, "STANDARD_IA")
             has_glacier_transition      == s3_has_transition(bucket.rules, "GLACIER")
             has_deep_archive_transition == s3_has_transition(bucket.rules, "DEEP_ARCHIVE")
         IN IF ~(has_ia_transition /\ has_glacier_transition /\ has_deep_archive_transition)
            THEN <<S3PolicyRecommendation(bucket.name, "Improve Lifecycle Policy",
                      Halved(s3_calculate_lifecycle_savings(bucket.size)), <<>>,
                      <<~has_ia_transition, ~has_glacier_transition,
                        ~has_deep_archive_transition>>)>>
            ELSE <<>>

\* S3Optimizer._find_lifecycle_policy_opportunities
RECURSIVE s3_find_lifecycle_policy_opportunities(_, _)
s3_find_lifecycle_policy_opportunities(buckets, th) ==
    IF buckets = <<>> THEN <<>>
    ELSE s3_lifecycle_one(Head(buckets), th)
         \o s3_find_lifecycle_policy_opportunities(Tail(buckets), th)

s3_versioning_one(bucket) ==
    IF bucket.versioning /\ bucket.has_lifecycle_policy
    THEN IF \E k \in 1..Len(bucket.rules) : bucket.rules[k].noncurrent
         THEN <<>>
         ELSE <<S3PolicyRecommendation(bucket.name, "Add Version Expiration",
                   Exact(s3_calculate_versioning_savings(bucket.size)), <<>>, <<>>)>>
    ELSE <<>>

\* S3Optimizer._find_versioning_optimization_opportunities
RECURSIVE s3_find_versioning_optimization_opportunities(_)
s3_find_versioning_optimization_opportunities(buckets) ==
    IF buckets = <<>> THEN <<>>
    ELSE s3_versioning_one(Head(buckets))
         \o s3_find_versioning_optimization_opportunities(Tail(buckets))

s3_unused_sized_only(bucket) ==
    IF bucket.object_count = 0 /\ bucket.size > 0
    THEN <<S3PolicyRecommendation(bucket.name, "Delete Bucket", Exact(23000 * 12 * 16),
                                  <<>>, <<>>)>>
    ELSE <<>>

\* 0.023 * 12 in the S3 savings unit
s3_unused_one(bucket) ==
    IF bucket.object_count = 0
    THEN <<S3PolicyRecommendation(bucket.name, "Delete Bucket", Exact(23000 * 12 * 16),
                                  <<>>, <<>>)>>
    ELSE <<>>

\* S3Optimizer._find_unused_buckets
RECURSIVE s3_find_unused_buckets(_)
s3_find_unused_buckets(buckets) ==
    IF buckets = <<>> THEN <<>>
    ELSE s3_unused_one(Head(buckets)) \o s3_find_unused_buckets(Tail(buckets))

(***************************************************************************)
(* generate_recommendations                                                *)
(***************************************************************************)
\* EC2Optimizer._get_instances: [] when describe_instances raises, else the
\* running instances in order
RECURSIVE ec2_running(_)
ec2_running(raw) ==
    IF raw = <<>> THEN <<>>
    ELSE (IF Head(raw).state = "running" THEN <<Head(raw)>> ELSE <<>>)
         \o ec2_running(Tail(raw))

ec2_get_instances(answer) ==
    IF answer.enum_fails THEN <<>> ELSE ec2_running(answer.instances)

\* the try block of EC2Optimizer.generate_recommendations for one region: what
\* reaches all_recommendations. Each rule's list is added when the rule
\* returns; the first rule is the only one that raises, so a region either
\* adds all three lists or nothing.
ec2_classify(instances, region, min_cpu, min_uptime) ==
    LET underutilized == ec2_find_underutilized_instances(instances, region, min_cpu)
    IN IF underutilized.raised THEN <<>>
       ELSE underutilized.value
            \o ec2_find_idle_instances(instances, region)
            \o ec2_find_ri_opportunities(instances, region, min_uptime)

ec2_region_recommendations(answer, region, min_cpu, min_uptime) ==
    ec2_classify(ec2_get_instances(answer), region, min_cpu, min_uptime)

RECURSIVE ec2_all_kept_across_runs(_, _, _, _)
ec2_all_kept_across_runs(regions, answers, min_cpu, min_uptime) ==
    IF regions = <<>>
    THEN (IF call = "EC2Optimizer.generate_recommendations" THEN result.value ELSE <<>>)
    ELSE ec2_all_kept_across_runs(Tail(regions), answers, min_cpu, min_uptime)
         \o ec2_region_recommendations(answers[Head(regions)], Head(regions),
                                       min_cpu, min_uptime)

RECURSIVE ec2_all_until_failure(_, _, _, _)
ec2_all_until_failure(regions, answers, min_cpu, min_uptime) ==
    IF regions = <<>> THEN <<>>
    ELSE IF ec2_find_underutilized_instances(ec2_get_instances(answers[Head(regions)]),
                                             Head(regions), min_cpu).raised
    THEN <<>>
    ELSE ec2_region_recommendations(answers[Head(regions)], Head(regions),
                                    min_cpu, min_uptime)
         \o ec2_all_until_failure(Tail(regions), answers, min_cpu, min_uptime)

RECURSIVE ec2_all_recommendations(_, _, _, _)
ec2_all_recommendations(regions, answers, min_cpu, min_uptime) ==
    IF regions = <<>> THEN <<>>
    ELSE ec2_region_recommendations(answers[Head(regions)], Head(regions),
                                    min_cpu, min_uptime)
         \o ec2_all_recommendations(Tail(regions), answers, min_cpu, min_uptime)

\* EC2Optimizer.generate_recommendations
ec2_generate_recommendations(regions, answers, min_cpu, min_uptime) ==
    SortBySavingsDesc(ec2_all_recommendations(regions, answers, min_cpu, min_uptime))

\* S3Optimizer._get_bucket_versioning: answer is [fails, enabled]
s3_get_bucket_versioning(answer) == ~answer.fails /\ answer.enabled

\* the loop of S3Optimizer._get_buckets: a bucket whose get_bucket_location
\* raises is left out, the others get metrics, lifecycle and versioning
RECURSIVE s3_bucket_details(_)
s3_bucket_details(listed) ==
    IF listed = <<>> THEN <<>>
    ELSE (IF Head(listed).location_fails THEN <<>>
          ELSE <<BucketDetails(Head(listed).name, s3_get_bucket_metrics(Head(listed)),
                               s3_get_bucket_lifecycle(Head(listed).lifecycle),
                               s3_get_bucket_versioning(Head(listed).versioning))>>)
         \o s3_bucket_details(Tail(listed))

\* S3Optimizer._get_buckets: [] when list_buckets raises
s3_get_buckets(answer) ==
    IF answer.list_fails THEN <<>> ELSE s3_bucket_details(answer.buckets)

\* the storage-class rule over the buckets of _get_buckets, in the shape of the
\* other rules' recommendations
s3_storage_class_recommendations(buckets, th) ==
    LET recs == s3_find_storage_class_opportunities(buckets, th)
    IN [k \in 1..Len(recs) |->
            S3PolicyRecommendation(recs[k].resource_id, recs[k].recommendation_type,
                Exact(recs[k].potential_savings),
                <<<<recs[k].days_since_access, recs[k].recommended_storage_class>>>>, <<>>)]

\* S3Optimizer.generate_recommendations: the four rules in order, unsorted
s3_generate_recommendations(answer, th) ==
    LET buckets == s3_get_buckets(answer)
    IN s3_storage_class_recommendations(buckets, th)
       \o s3_find_lifecycle_policy_opportunities(buckets, th)
       \o s3_find_versioning_optimization_opportunities(buckets)
       \o s3_find_unused_buckets(buckets)

\* VMOptimizer._get_vms: [] when list_all raises; _get_vm_power_state answers
\* "running" for every VM
vm_get_vms(answer) ==
    IF answer.enum_fails THEN <<>>
    ELSE [k \in 1..Len(answer.vms) |->
            [id |-> answer.vms[k].id, name_hash |-> answer.vms[k].name_hash,
             vm_size |-> answer.vms[k].vm_size, location |-> answer.vms[k].location,
             age |-> answer.vms[k].age, power_state |-> "running"]]

vm_subscription_recommendations(answer, sub, min_cpu) ==
    LET vms == vm_get_vms(answer)
    IN vm_find_underutilized_vms(vms, sub, min_cpu)
       \o vm_find_idle_vms(vms, sub)
       \o vm_find_ri_opportunities(vms, sub)

RECURSIVE vm_all_recommendations(_, _, _)
vm_all_recommendations(subs, answers, min_cpu) ==
    IF subs = <<>> THEN <<>>
    ELSE vm_subscription_recommendations(answers[Head(subs)], Head(subs), min_cpu)
         \o vm_all_recommendations(Tail(subs), answers, min_cpu)

\* VMOptimizer.generate_recommendations, clients initialised
vm_generate_recommendations(subs, answers, min_cpu) ==
    SortBySavingsDesc(vm_all_recommendations(subs, answers, min_cpu))

(***************************************************************************)
(* Inputs                                                                  *)
(***************************************************************************)
MaxBystanders == 1      \* other instances before / after the one under study
MaxGroupFleet == 6      \* instances handed to the Reserved-Capacity grouper
MaxPerRegion == 2       \* instances a region (subscription) lists in a run
MaxBuckets == 2         \* buckets handed to an S3 rule

\* config values of min_cpu_utilization (5.0 is the default, 20 the VM tests')
MinCpuChoices == {10, 50, 200}

\* config values of min_uptime_hours (168 is the default, 12 the VM tests')
MinUptimeChoices == {12, 168}

DefaultThresholds == [ia |-> 30, glacier |-> 90, deep_archive |-> 180, min_size |-> 2]

\* config values of S3Optimizer: the defaults, other increasing thresholds,
\* and thresholds that do not increase
ThresholdChoices ==
    {DefaultThresholds,
     [ia |-> 7, glacier |-> 30, deep_archive |-> 60, min_size |-> 16],
     [ia |-> 30, glacier |-> 180, deep_archive |-> 90, min_size |-> 2]}

Dp(v) == <<v>>

Answers(dps) == [fails |-> FALSE, datapoints |-> dps]

\* what CloudWatch answers for an instance
MetricChoices ==
    {[fails |-> TRUE, datapoints |-> <<>>], Answers(<<>>)}
    \cup {Answers(<<Dp(v)>>) : v \in {0, 4, 5, 9, 10, 19, 20, 40, 49, 50, 190, 200}}
    \cup {Answers(<<Dp(30), Dp(20), Dp(40)>>), Answers(<<Dp(5), Dp(3), Dp(8)>>),
          Answers(<<Dp(9), Dp(11)>>), Answers(<<Dp(90), Dp(10)>>),
          Answers(<<<<>>, Dp(10)>>)}

\* instance types: priced with a priced target, without a downgrade entry,
\* with an unpriced target, unpriced with a priced target, unpriced both,
\* without a separator, with two separators, None
TypeChoices ==
    {<<"t3", "xlarge">>, <<"m5", "24xlarge">>, <<"t3", "nano">>, <<"m5", "large">>,
     <<"m5", "10xlarge">>, <<"m5", "3xlarge">>, <<"x1", "6xlarge">>, <<"x1", "xlarge">>,
     <<"t3">>, <<"a", "b", "c">>, NoneType}

Instance(type, launch, metric) ==
    [instance_id |-> "", instance_type |-> type, launch_time |-> launch, metric |-> metric]

\* the k-th instance of a listing gets the id "i-k"
WithInstanceIds(instances) ==
    [k \in 1..Len(instances) |->
        [instances[k] EXCEPT !.instance_id = "i-" \o ToString(k)]]

\* instances that never raise, next to the instance under study
Bystanders ==
    {Instance(<<"t3", "xlarge">>, <<1000>>, Answers(<<Dp(40)>>)),
     Instance(<<"t3", "micro">>, <<1000>>, Answers(<<Dp(0)>>))}

RuleFleets ==
    {<<>>} \cup
    {WithInstanceIds(before \o <<Instance(t, <<1000>>, m)>> \o after) :
        before \in SeqsUpTo(Bystanders, MaxBystanders),
        after \in SeqsUpTo(Bystanders, MaxBystanders),
        t \in TypeChoices, m \in MetricChoices}

Vm(hash, size, location, power, age) ==
    [id |-> "", name_hash |-> hash, vm_size |-> size, location |-> location,
     power_state |-> power, age |-> age]

\* the k-th VM of a listing gets the id "vm-k"
WithVmIds(vms) ==
    [k \in 1..Len(vms) |-> [vms[k] EXCEPT !.id = "vm-" \o ToString(k)]]

\* md5 values of VM names, by the CPU they stand for: 0.5, 0.9, 1.0, 1.9, 2.0,
\* 4.0, 4.9, 5.0, 19.0, 19.9, 0.5 again; <<>> is a name that cannot be hashed
HashChoices ==
    {<<h>> : h \in {0, 4, 5, 14, 15, 35, 44, 45, 185, 194, 195}} \cup {<<>>}

VmSizeChoices ==
    {VmSize("Standard_D", 2, "s_v3"), VmSize("Standard_D", 1, "s_v3"),
     VmSize("Standard_B", 2, "s"), VmSize("Standard_B", 20, "ms"),
     VmSize("Standard_NC", 6, ""), VmSize("Basic_A", -1, "")}

VmBystanders ==
    {Vm(<<35>>, VmSize("Standard_D", 4, "s_v3"), "eastus", "running", 1000),
     Vm(<<0>>, VmSize("Standard_F", 2, "s_v2"), "eastus", "running", 1000)}

VmRuleFleets ==
    {<<>>} \cup
    {WithVmIds(before \o <<Vm(h, sz, "eastus", p, 1000)>> \o after) :
        before \in SeqsUpTo(VmBystanders, MaxBystanders),
        after \in SeqsUpTo(VmBystanders, MaxBystanders),
        h \in HashChoices, sz \in VmSizeChoices, p \in {"running", "deallocated"}}

(***************************************************************************)
(* The rules, one call per behaviour. No rule assigns a field of its       *)
(* optimizer, so a call made after another call sees the state a call made *)
(* right after construction sees: every step starts from there.            *)
(***************************************************************************)
\* general.default_region, the region of the clients _initialize_clients makes
DefaultRegion == "us-east-1"

Constructed ==
    /\ call = "none"
    /\ args = <<>>
    /\ result = Returned(<<>>)
    /\ ec2_client = DefaultRegion
    /\ cloudwatch_client = DefaultRegion
    /\ tasks = <<>>

InitRules ==
    /\ min_cpu_utilization \in MinCpuChoices
    /\ min_uptime_hours = 168
    /\ s3_thresholds = DefaultThresholds
    /\ Constructed

Config == <<min_cpu_utilization, min_uptime_hours, s3_thresholds>>

Clients == <<ec2_client, cloudwatch_client>>

EC2FindUnderutilized ==
    /\ call = "none"
    /\ \E instances \in RuleFleets :
        /\ call' = "EC2Optimizer._find_underutilized_instances"
        /\ args' = instances
        /\ result' = ec2_find_underutilized_instances(instances, "us-east-1",
                                                      min_cpu_utilization)
        /\ UNCHANGED <<Config, Clients, tasks>>

EC2FindIdle ==
    /\ call = "none"
    /\ \E instances \in RuleFleets :
        /\ call' = "EC2Optimizer._find_idle_instances"
        /\ args' = instances
        /\ result' = Returned(ec2_find_idle_instances(instances, "us-east-1"))
        /\ UNCHANGED <<Config, Clients, tasks>>

VMFindUnderutilized ==
    /\ call = "none"
    /\ \E vms \in VmRuleFleets :
        /\ call' = "VMOptimizer._find_underutilized_vms"
        /\ args' = vms
        /\ result' = Returned(vm_find_underutilized_vms(vms, "sub-1", min_cpu_utilization))
        /\ UNCHANGED <<Config, Clients, tasks>>

VMFindIdle ==
    /\ call = "none"
    /\ \E vms \in VmRuleFleets :
        /\ call' = "VMOptimizer._find_idle_vms"
        /\ args' = vms
        /\ result' = Returned(vm_find_idle_vms(vms, "sub-1"))
        /\ UNCHANGED <<Config, Clients, tasks>>

NextRules == EC2FindUnderutilized \/ EC2FindIdle \/ VMFindUnderutilized \/ VMFindIdle

SpecRules == InitRules /\ [][NextRules]_vars

(***************************************************************************)
(* The Reserved-Capacity groupers, one call per behaviour                  *)
(***************************************************************************)
\* a priced type launched never / below / at the default gate, and an
\* unpriced type at the gate
GroupInstanceChoices ==
    {Instance(<<"t3", "large">>, <<>>, Answers(<<>>)),
     Instance(<<"t3", "large">>, <<167>>, Answers(<<>>)),
     Instance(<<"t3", "large">>, <<168>>, Answers(<<>>)),
     Instance(<<"x1", "large">>, <<168>>, Answers(<<>>))}

GroupFleets ==
    {WithInstanceIds(f) : f \in SeqsUpTo(GroupInstanceChoices, MaxGroupFleet)}

\* one size and location: created long ago, created an hour ago, not
\* running; and the same size elsewhere
GroupVmChoices ==
    {Vm(<<185>>, VmSize("Standard_D", 2, "s_v3"), "eastus", "running", 1000),
     Vm(<<185>>, VmSize("Standard_D", 2, "s_v3"), "eastus", "running", 1),
     Vm(<<185>>, VmSize("Standard_D", 2, "s_v3"), "eastus", "deallocated", 1000),
     Vm(<<185>>, VmSize("Standard_D", 2, "s_v3"), "westus", "running", 1000)}

GroupVmFleets == {WithVmIds(f) : f \in SeqsUpTo(GroupVmChoices, MaxGroupFleet)}

InitReserved ==
    /\ min_cpu_utilization = 50
    /\ min_uptime_hours \in MinUptimeChoices
    /\ s3_thresholds = DefaultThresholds
    /\ Constructed

EC2FindRiOpportunities ==
    /\ call = "none"
    /\ \E instances \in GroupFleets :
        /\ call' = "EC2Optimizer._find_ri_opportunities"
        /\ args' = instances
        /\ result' = Returned(ec2_find_ri_opportunities(instances, "us-east-1",
                                                        min_uptime_hours))
        /\ UNCHANGED <<Config, Clients, tasks>>

VMFindRiOpportunities ==
    /\ call = "none"
    /\ \E vms \in GroupVmFleets :
        /\ call' = "VMOptimizer._find_ri_opportunities"
        /\ args' = vms
        /\ result' = Returned(vm_find_ri_opportunities(vms, "sub-1"))
        /\ UNCHANGED <<Config, Clients, tasks>>

NextReserved == EC2FindRiOpportunities \/ VMFindRiOpportunities

SpecReserved == InitReserved /\ [][NextReserved]_vars

(***************************************************************************)
(* The savings calculators, one call per behaviour                         *)
(***************************************************************************)
SavingsTypeChoices ==
    {<<f, sz>> : f \in {"t3", "m5", "x1"},
                 sz \in {"nano", "medium", "large", "xlarge", "4xlarge", "8xlarge",
                         "16xlarge", "10xlarge", "6xlarge"}}
    \cup {<<"t3">>, <<"a", "b", "c">>, NoneType}

SavingsSizeChoices ==
    {VmSize("Standard_D", 1, "s_v3"), VmSize("Standard_D", 2, "s_v3"),
     VmSize("Standard_D", 4, "s_v3"), VmSize("Standard_D", 48, "s_v3"),
     VmSize("Standard_B", 2, "s"), VmSize("Standard_B", 1, "s"),
     VmSize("Standard_NC", 6, ""), VmSize("Standard_NC", 12, ""),
     VmSize("Standard_NC", 24, ""), VmSize("Standard_A", 0, ""),
     VmSize("Basic_A", -1, "")}

InitSavings ==
    /\ min_cpu_utilization = 50
    /\ min_uptime_hours = 168
    /\ s3_thresholds = DefaultThresholds
    /\ Constructed

EC2CalculateDownsizingSavings ==
    /\ call = "none"
    /\ \E current_type \in SavingsTypeChoices, recommended_type \in SavingsTypeChoices :
        /\ call' = "EC2Optimizer._calculate_downsizing_savings"
        /\ args' = <<current_type, recommended_type>>
        /\ result' = IF ec2_calculate_raises(current_type, recommended_type)
                     THEN Raised
                     ELSE Returned(ec2_calculate_downsizing_savings(current_type,
                                                                    recommended_type))
        /\ UNCHANGED <<Config, Clients, tasks>>

VMCalculateDownsizingSavings ==
    /\ call = "none"
    /\ \E current_size \in SavingsSizeChoices, recommended_size \in SavingsSizeChoices :
        /\ call' = "VMOptimizer._calculate_downsizing_savings"
        /\ args' = <<current_size, recommended_size>>
        /\ result' = Returned(vm_calculate_downsizing_savings(current_size,
                                                              recommended_size))
        /\ UNCHANGED <<Config, Clients, tasks>>

NextSavings == EC2CalculateDownsizingSavings \/ VMCalculateDownsizingSavings

SpecSavings == InitSavings /\ [][NextSavings]_vars

(***************************************************************************)
(* The S3 storage-class rule, one call per behaviour                       *)
(***************************************************************************)
Bucket(size, last_accessed) ==
    [name |-> "", size |-> size, last_accessed |-> last_accessed]

\* the k-th bucket of a listing is named "bucket-k"
WithBucketNames(buckets) ==
    [k \in 1..Len(buckets) |-> [buckets[k] EXCEPT !.name = "bucket-" \o ToString(k)]]

\* 64 MiB, 128 MiB, 1 GiB and 500 GiB; never accessed, or last accessed around
\* each threshold of ThresholdChoices
BucketChoices ==
    {Bucket(size, la) :
        size \in {1, 2, 16, 8000},
        la \in {<<>>} \cup {<<d>> : d \in {7, 8, 30, 31, 60, 61, 90, 91, 180, 181, 200}}}

BucketLists == {WithBucketNames(b) : b \in SeqsUpTo(BucketChoices, MaxBuckets)}

InitStorage ==
    /\ min_cpu_utilization = 50
    /\ min_uptime_hours = 168
    /\ s3_thresholds \in ThresholdChoices
    /\ Constructed

S3FindStorageClassOpportunities ==
    /\ call = "none"
    /\ \E buckets \in BucketLists :
        /\ call' = "S3Optimizer._find_storage_class_opportunities"
        /\ args' = buckets
        /\ result' = Returned(s3_find_storage_class_opportunities(buckets, s3_thresholds))
        /\ UNCHANGED <<Config, Clients, tasks>>

NextStorage == S3FindStorageClassOpportunities

SpecStorage == InitStorage /\ [][NextStorage]_vars

(***************************************************************************)
(* The S3 lifecycle, versioning and unused-bucket rules, one call per      *)
(* behaviour                                                               *)
(***************************************************************************)
MetricAnswer(fails, datapoints) == [fails |-> fails, datapoints |-> datapoints]

\* what CloudWatch and the object listing answer for a bucket: the size as 1 GiB,
\* the object count as 0 or 3 in its last datapoint, each possibly failing or
\* without datapoints
BucketAnswerChoices ==
    {[name |-> "", size |-> sz, count |-> c, last_modified |-> lm] :
        sz \in {MetricAnswer(TRUE, <<>>), MetricAnswer(FALSE, <<>>), MetricAnswer(FALSE, <<16>>)},
        c \in {MetricAnswer(TRUE, <<>>), MetricAnswer(FALSE, <<>>), MetricAnswer(FALSE, <<0>>),
               MetricAnswer(FALSE, <<3>>), MetricAnswer(FALSE, <<3, 0>>)},
        lm \in {<<>>, <<200>>}}

BucketAnswerLists == {WithBucketNames(a) : a \in SeqsUpTo(BucketAnswerChoices, MaxBuckets)}

\* the loop of _get_buckets over the answers, lifecycle and versioning unset
MeasuredBuckets(answers) ==
    [k \in 1..Len(answers) |->
        BucketDetails(answers[k].name, s3_get_bucket_metrics(answers[k]),
                      s3_get_bucket_lifecycle([fails |-> TRUE, has_rules |-> FALSE,
                                               rules |-> <<>>]),
                      FALSE)]

LifecycleRule(transitions, noncurrent) ==
    [has_transitions |-> TRUE, transitions |-> transitions, noncurrent |-> noncurrent]

\* lifecycle configurations: none; a policy without rules; one rule with the
\* three transitions; IA only; the three transitions spread over two rules;
\* a rule without 'Transitions' that expires noncurrent versions; IA and
\* Glacier with a noncurrent-version expiration
LifecycleChoices ==
    {[fails |-> FALSE, has_rules |-> FALSE, rules |-> <<>>],
     [fails |-> FALSE, has_rules |-> TRUE, rules |-> <<>>],
     [fails |-> FALSE, has_rules |-> TRUE,
      rules |-> <<LifecycleRule(<<"STANDARD_IA", "GLACIER", "DEEP_ARCHIVE">>, FALSE)>>],
     [fails |-> FALSE, has_rules |-> TRUE,
      rules |-> <<LifecycleRule(<<"STANDARD_IA">>, FALSE)>>],
     [fails |-> FALSE, has_rules |-> TRUE,
      rules |-> <<LifecycleRule(<<"GLACIER", "STANDARD_IA">>, FALSE),
                  LifecycleRule(<<"DEEP_ARCHIVE">>, FALSE)>>],
     [fails |-> FALSE, has_rules |-> TRUE,
      rules |-> <<[has_transitions |-> FALSE, transitions |-> <<>>, noncurrent |-> TRUE]>>],
     [fails |-> FALSE, has_rules |-> TRUE,
      rules |-> <<LifecycleRule(<<"STANDARD_IA", "GLACIER">>, TRUE)>>]}

\* buckets of 64 MiB, 128 MiB and 1 GiB holding 3 objects
DetailChoices ==
    {BucketDetails("", [size_bytes |-> size, object_count |-> 3, last_accessed |-> <<>>],
                   s3_get_bucket_lifecycle(lc), v) :
        size \in {1, 2, 16}, lc \in LifecycleChoices, v \in BOOLEAN}

DetailLists == {WithBucketNames(b) : b \in SeqsUpTo(DetailChoices, MaxBuckets)}

InitBuckets ==
    /\ min_cpu_utilization = 50
    /\ min_uptime_hours = 168
    /\ s3_thresholds \in ThresholdChoices
    /\ Constructed

S3FindUnusedBuckets ==
    /\ call = "none"
    /\ \E answers \in BucketAnswerLists :
        /\ call' = "S3Optimizer._find_unused_buckets"
        /\ args' = answers
        /\ result' = Returned(s3_find_unused_buckets(MeasuredBuckets(answers)))
        /\ UNCHANGED <<Config, Clients, tasks>>

S3FindLifecyclePolicyOpportunities ==
    /\ call = "none"
    /\ \E buckets \in DetailLists :
        /\ call' = "S3Optimizer._find_lifecycle_policy_opportunities"
        /\ args' = buckets
        /\ result' = Returned(s3_find_lifecycle_policy_opportunities(buckets, s3_thresholds))
        /\ UNCHANGED <<Config, Clients, tasks>>

S3FindVersioningOptimizationOpportunities ==
    /\ call = "none"
    /\ \E buckets \in DetailLists :
        /\ call' = "S3Optimizer._find_versioning_optimization_opportunities"
        /\ args' = buckets
        /\ result' = Returned(s3_find_versioning_optimization_opportunities(buckets))
        /\ UNCHANGED <<Config, Clients, tasks>>

NextBuckets ==
    \/ S3FindUnusedBuckets
    \/ S3FindLifecyclePolicyOpportunities
    \/ S3FindVersioningOptimizationOpportunities

SpecBuckets == InitBuckets /\ [][NextBuckets]_vars

\* the two rules of S3Optimizer that skip buckets below min_size_mb
InitFloor ==
    /\ min_cpu_utilization = 50
    /\ min_uptime_hours = 168
    /\ s3_thresholds \in ThresholdChoices
    /\ Constructed

NextFloor ==
    \/ S3FindStorageClassOpportunities
    \/ S3FindLifecyclePolicyOpportunities

SpecFloor == InitFloor /\ [][NextFloor]_vars

(***************************************************************************)
(* A run: one generate_recommendations call per behaviour                  *)
(***************************************************************************)
Regions == <<"us-east-1", "eu-west-1">>

SubscriptionIds == <<"sub-1", "sub-2">>

Range(seq) == {seq[k] : k \in 1..Len(seq)}

RunInstance(type, metric, state) ==
    [instance_id |-> "", instance_type |-> type, launch_time |-> <<1000>>,
     metric |-> metric, state |-> state]

\* what describe_instances lists: two rightsizable instances at 4.0 %, an idle
\* t3.micro, an idle instance whose type has two dots, a stopped instance, an
\* idle t3.large (0.5 %)
RunInstanceChoices ==
    {RunInstance(<<"t3", "large">>, Answers(<<Dp(5)>>), "running"),
     RunInstance(<<"t3", "xlarge">>, Answers(<<Dp(40)>>), "running"),
     RunInstance(<<"t3", "micro">>, Answers(<<Dp(0)>>), "running"),
     RunInstance(<<"m5", "xlarge">>, Answers(<<Dp(40)>>), "running"),
     RunInstance(<<"a", "b", "c">>, Answers(<<Dp(0)>>), "running"),
     RunInstance(<<"t3", "xlarge">>, Answers(<<Dp(40)>>), "stopped")}

RegionAnswers ==
    {[enum_fails |-> TRUE, instances |-> <<>>]}
    \cup {[enum_fails |-> FALSE, instances |-> WithInstanceIds(i)] :
            i \in SeqsUpTo(RunInstanceChoices, MaxPerRegion)}

\* what list_all lists: VMs at 4.0 %, 0.5 % and 19.0 %
RunVmChoices ==
    {Vm(<<35>>, VmSize("Standard_D", 2, "s_v3"), "eastus", "running", 1000),
     Vm(<<0>>, VmSize("Standard_F", 2, "s_v2"), "eastus", "running", 1000),
     Vm(<<185>>, VmSize("Standard_B", 2, "s"), "eastus", "running", 1000),
     Vm(<<4>>, VmSize("Standard_D", 2, "s_v3"), "westus", "running", 1)}

SubscriptionAnswers ==
    {[enum_fails |-> TRUE, vms |-> <<>>]}
    \cup {[enum_fails |-> FALSE, vms |-> WithVmIds(v)] :
            v \in SeqsUpTo(RunVmChoices, MaxPerRegion)}

Init ==
    /\ min_cpu_utilization \in MinCpuChoices
    /\ min_uptime_hours \in MinUptimeChoices
    /\ s3_thresholds = DefaultThresholds
    /\ Constructed

EC2GenerateRecommendations ==
    /\ call = "none"
    /\ \E answers \in [Range(Regions) -> RegionAnswers] :
        /\ call' = "EC2Optimizer.generate_recommendations"
        /\ args' = answers
        /\ result' = Returned(ec2_generate_recommendations(
                                Regions, answers, min_cpu_utilization, min_uptime_hours))
        /\ ec2_client' = Regions[Len(Regions)]
        /\ cloudwatch_client' = Regions[Len(Regions)]
        /\ UNCHANGED <<Config, tasks>>

VMGenerateRecommendations ==
    /\ call = "none"
    /\ \E answers \in [Range(SubscriptionIds) -> SubscriptionAnswers] :
        /\ call' = "VMOptimizer.generate_recommendations"
        /\ args' = answers
        /\ result' = Returned(vm_generate_recommendations(
                                SubscriptionIds, answers, min_cpu_utilization))
        /\ UNCHANGED <<Config, Clients, tasks>>

Next == EC2GenerateRecommendations \/ VMGenerateRecommendations

Spec == Init /\ [][Next]_vars

(***************************************************************************)
(* Two runs of generate_recommendations on the same input. The clock is    *)
(* read inside the engine (datetime.utcnow() in _get_instance_uptime_hours,*)
(* datetime.now() in _find_storage_class_opportunities), so the second run *)
(* sees every launch `elapsed` hours, every last access `elapsed` days     *)
(* further back. args is [input, elapsed, runs, first]: the input of both  *)
(* runs, the time between them, how many runs were made, what the first    *)
(* returned.                                                               *)
(***************************************************************************)
MaxElapsed == 1

RunArgs(input, elapsed, runs, first) ==
    [input |-> input, elapsed |-> elapsed, runs |-> runs, first |-> first]

\* instances around the uptime gate of 168 h, an idle instance, an instance
\* whose type makes the analysis raise
RepeatInstanceChoices ==
    {[instance_id |-> "", instance_type |-> <<"t3", "large">>, launch_time |-> <<167>>,
      metric |-> Answers(<<>>), state |-> "running"],
     [instance_id |-> "", instance_type |-> <<"t3", "large">>, launch_time |-> <<168>>,
      metric |-> Answers(<<>>), state |-> "running"],
     [instance_id |-> "", instance_type |-> <<"t3", "large">>, launch_time |-> <<>>,
      metric |-> Answers(<<>>), state |-> "running"],
     RunInstance(<<"t3", "micro">>, Answers(<<Dp(0)>>), "running"),
     RunInstance(<<"a", "b", "c">>, Answers(<<Dp(0)>>), "running")}

RepeatRegionAnswers ==
    {[enum_fails |-> TRUE, instances |-> <<>>]}
    \cup {[enum_fails |-> FALSE, instances |-> WithInstanceIds(i)] :
            i \in SeqsUpTo(RepeatInstanceChoices, MaxPerRegion)}

\* the instances as a run `hours` later computes their uptime
LaunchedEarlier(instances, hours) ==
    [k \in 1..Len(instances) |->
        IF instances[k].launch_time = <<>> THEN instances[k]
        ELSE [instances[k] EXCEPT !.launch_time = <<@[1] + hours>>]]

AnswersLater(answers, hours) ==
    [r \in DOMAIN answers |->
        [answers[r] EXCEPT !.instances = LaunchedEarlier(@, hours)]]

ListedBucket(size, count, last_modified, lifecycle, versioning, location_fails) ==
    [name |-> "", size |-> size, count |-> count, last_modified |-> last_modified,
     lifecycle |-> lifecycle,
     versioning |-> [fails |-> FALSE, enabled |-> versioning],
     location_fails |-> location_fails]

NoLifecycle == [fails |-> FALSE, has_rules |-> FALSE, rules |-> <<>>]

FullLifecycle ==
    [fails |-> FALSE, has_rules |-> TRUE,
     rules |-> <<LifecycleRule(<<"STANDARD_IA", "GLACIER", "DEEP_ARCHIVE">>, FALSE)>>]

\* listed buckets: 1 GiB last modified 30 days ago without a policy; 1 GiB last
\* modified 200 days ago, versioned, with a full policy; a bucket without
\* metric datapoints; a bucket whose location cannot be read; 64 MiB
RepeatBucketChoices ==
    {ListedBucket(MetricAnswer(FALSE, <<16>>), MetricAnswer(FALSE, <<3>>), <<30>>,
                  NoLifecycle, FALSE, FALSE),
     ListedBucket(MetricAnswer(FALSE, <<16>>), MetricAnswer(FALSE, <<3>>), <<200>>,
                  FullLifecycle, TRUE, FALSE),
     ListedBucket(MetricAnswer(FALSE, <<>>), MetricAnswer(FALSE, <<>>), <<>>,
                  NoLifecycle, FALSE, FALSE),
     ListedBucket(MetricAnswer(FALSE, <<16>>), MetricAnswer(FALSE, <<3>>), <<200>>,
                  NoLifecycle, FALSE, TRUE),
     ListedBucket(MetricAnswer(FALSE, <<1>>), MetricAnswer(FALSE, <<3>>), <<200>>,
                  FullLifecycle, TRUE, FALSE)}

RepeatListings ==
    {[list_fails |-> TRUE, buckets |-> <<>>]}
    \cup {[list_fails |-> FALSE, buckets |-> WithBucketNames(b)] :
            b \in SeqsUpTo(RepeatBucketChoices, MaxBuckets)}

\* the listing as a run `days` later computes the days since last access
ListingLater(answer, days) ==
    [answer EXCEPT !.buckets =
        [k \in 1..Len(@) |->
            IF @[k].last_modified = <<>> THEN @[k]
            ELSE [@[k] EXCEPT !.last_modified = <<@[1] + days>>]]]

InitRepeat ==
    /\ min_cpu_utilization = 50
    /\ min_uptime_hours = 168
    /\ s3_thresholds = DefaultThresholds
    /\ Constructed

EC2FirstRun ==
    /\ call = "none"
    /\ \E answers \in [Range(Regions) -> RepeatRegionAnswers] :
        /\ call' = "EC2Optimizer.generate_recommendations"
        /\ args' = RunArgs(answers, 0, 1, <<>>)
        /\ result' = Returned(ec2_generate_recommendations(
                                Regions, answers, min_cpu_utilization, min_uptime_hours))
        /\ ec2_client' = Regions[Len(Regions)]
        /\ cloudwatch_client' = Regions[Len(Regions)]
        /\ UNCHANGED <<Config, tasks>>

EC2SecondRun ==
    /\ call = "EC2Optimizer.generate_recommendations"
    /\ args.runs = 1
    /\ \E elapsed \in 0..MaxElapsed :
        /\ call' = call
        /\ args' = RunArgs(args.input, elapsed, 2, result.value)
        /\ result' = Returned(ec2_generate_recommendations(
                                Regions, AnswersLater(args.input, elapsed),
                                min_cpu_utilization, min_uptime_hours))
        /\ ec2_client' = Regions[Len(Regions)]
        /\ cloudwatch_client' = Regions[Len(Regions)]
        /\ UNCHANGED <<Config, tasks>>

VMFirstRun ==
    /\ call = "none"
    /\ \E answers \in [Range(SubscriptionIds) -> SubscriptionAnswers] :
        /\ call' = "VMOptimizer.generate_recommendations"
        /\ args' = RunArgs(answers, 0, 1, <<>>)
        /\ result' = Returned(vm_generate_recommendations(
                                SubscriptionIds, answers, min_cpu_utilization))
        /\ UNCHANGED <<Config, Clients, tasks>>

VMSecondRun ==
    /\ call = "VMOptimizer.generate_recommendations"
    /\ args.runs = 1
    /\ \E elapsed \in 0..MaxElapsed :
        /\ call' = call
        /\ args' = RunArgs(args.input, elapsed, 2, result.value)
        /\ result' = Returned(vm_generate_recommendations(
                                SubscriptionIds, args.input, min_cpu_utilization))
        /\ UNCHANGED <<Config, Clients, tasks>>

S3FirstRun ==
    /\ call = "none"
    /\ \E answer \in RepeatListings :
        /\ call' = "S3Optimizer.generate_recommendations"
        /\ args' = RunArgs(answer, 0, 1, <<>>)
        /\ result' = Returned(s3_generate_recommendations(answer, s3_thresholds))
        /\ UNCHANGED <<Config, Clients, tasks>>

S3SecondRun ==
    /\ call = "S3Optimizer.generate_recommendations"
    /\ args.runs = 1
    /\ \E elapsed \in 0..MaxElapsed :
        /\ call' = call
        /\ args' = RunArgs(args.input, elapsed, 2, result.value)
        /\ result' = Returned(s3_generate_recommendations(
                                ListingLater(args.input, elapsed), s3_thresholds))
        /\ UNCHANGED <<Config, Clients, tasks>>

NextRepeat ==
    \/ EC2FirstRun \/ EC2SecondRun
    \/ VMFirstRun \/ VMSecondRun
    \/ S3FirstRun \/ S3SecondRun

SpecRepeat == InitRepeat /\ [][NextRepeat]_vars

(***************************************************************************)
(* The body of the region loop of EC2Optimizer.generate_recommendations as *)
(* one task per region, without locking. A task runs the statements of the *)
(* body in order; statements of different tasks interleave. The clients    *)
(* are fields of the optimizer: every task assigns them and reads them.    *)
(*   pc = "ec2_client"        about to assign self.ec2_client              *)
(*        "cloudwatch_client" about to assign self.cloudwatch_client       *)
(*        "get_instances"     about to call _get_instances(region)         *)
(*        "classify"          about to run the three rules                 *)
(*        "done"                                                           *)
(* describe_instances answers for the region self.ec2_client is bound to;  *)
(* get_metric_statistics answers for the region self.cloudwatch_client is  *)
(* bound to, which has no datapoints for an instance of another region.    *)
(***************************************************************************)
TaskCall == "EC2Optimizer.generate_recommendations: region tasks"

MergedCall == "EC2Optimizer.generate_recommendations: region tasks merged"

Task(pc, instances, fetched_from, recs) ==
    [pc |-> pc, instances |-> instances, fetched_from |-> fetched_from, recs |-> recs]

TaskInstanceChoices ==
    {RunInstance(<<"t3", "xlarge">>, Answers(<<Dp(40)>>), "running"),
     RunInstance(<<"t3", "micro">>, Answers(<<Dp(0)>>), "running")}

TaskRegionAnswers ==
    {[enum_fails |-> TRUE, instances |-> <<>>]}
    \cup {[enum_fails |-> FALSE, instances |-> WithInstanceIds(i)] :
            i \in SeqsUpTo(TaskInstanceChoices, MaxPerRegion)}

\* the instances as the CloudWatch client bound to region sees them
SeenFrom(instances, fetched_from, region) ==
    IF fetched_from = region THEN instances
    ELSE [k \in 1..Len(instances) |-> [instances[k] EXCEPT !.metric = Answers(<<>>)]]

InitTasks ==
    /\ min_cpu_utilization = 50
    /\ min_uptime_hours = 168
    /\ s3_thresholds = DefaultThresholds
    /\ Constructed

StartTasks ==
    /\ call = "none"
    /\ \E answers \in [Range(Regions) -> TaskRegionAnswers] :
        /\ call' = TaskCall
        /\ args' = answers
        /\ tasks' = [r \in Range(Regions) |-> Task("ec2_client", <<>>, "", <<>>)]
        /\ UNCHANGED <<Config, Clients, result>>

TaskSetEc2Client(r) ==
    /\ call = TaskCall
    /\ tasks[r].pc = "ec2_client"
    /\ ec2_client' = r
    /\ tasks' = [tasks EXCEPT ![r].pc = "cloudwatch_client"]
    /\ UNCHANGED <<Config, cloudwatch_client, call, args, result>>

TaskSetCloudwatchClient(r) ==
    /\ call = TaskCall
    /\ tasks[r].pc = "cloudwatch_client"
    /\ cloudwatch_client' = r
    /\ tasks' = [tasks EXCEPT ![r].pc = "get_instances"]
    /\ UNCHANGED <<Config, ec2_client, call, args, result>>

TaskGetInstances(r) ==
    /\ call = TaskCall
    /\ tasks[r].pc = "get_instances"
    /\ tasks' = [tasks EXCEPT ![r] = Task("classify", ec2_get_instances(args[ec2_client]),
                                          ec2_client, <<>>)]
    /\ UNCHANGED <<Config, Clients, call, args, result>>

TaskClassify(r) ==
    /\ call = TaskCall
    /\ tasks[r].pc = "classify"
    /\ tasks' = [tasks EXCEPT
                    ![r].pc = "done",
                    ![r].recs = ec2_classify(
                                    SeenFrom(tasks[r].instances, tasks[r].fetched_from,
                                             cloudwatch_client),
                                    r, min_cpu_utilization, min_uptime_hours)]
    /\ UNCHANGED <<Config, Clients, call, args, result>>

RECURSIVE TaskRecommendations(_)
TaskRecommendations(regions) ==
    IF regions = <<>> THEN <<>>
    ELSE tasks[Head(regions)].recs \o TaskRecommendations(Tail(regions))

MergeTasks ==
    /\ call = TaskCall
    /\ \A r \in Range(Regions) : tasks[r].pc = "done"
    /\ call' = MergedCall
    /\ result' = Returned(SortBySavingsDesc(TaskRecommendations(Regions)))
    /\ UNCHANGED <<Config, Clients, args, tasks>>

NextTasks ==
    \/ StartTasks
    \/ \E r \in Range(Regions) : TaskSetEc2Client(r)
    \/ \E r \in Range(Regions) : TaskSetCloudwatchClient(r)
    \/ \E r \in Range(Regions) : TaskGetInstances(r)
    \/ \E r \in Range(Regions) : TaskClassify(r)
    \/ MergeTasks

SpecTasks == InitTasks /\ [][NextTasks]_vars

(***************************************************************************)
(* The size-downgrade lookups, applied to a size and then to what they     *)
(* returned: args = [current, avg_cpu, visited], visited the sizes the     *)
(* chain went through before current                                       *)
(***************************************************************************)
MaxChain == 8

ChainArgs(current, avg_cpu, visited) ==
    [current |-> current, avg_cpu |-> avg_cpu, visited |-> visited]

\* family.size for the families of the price table and one more, the sizes of
\* the downgrade map and of the price table, and a type without separator
ChainTypeChoices ==
    {<<f, sz>> : f \in {"t3", "m5", "c5", "r5", "x1"},
                 sz \in {"nano", "micro", "small", "medium", "large", "xlarge", "2xlarge",
                         "3xlarge", "4xlarge", "6xlarge", "8xlarge", "9xlarge", "10xlarge",
                         "12xlarge", "16xlarge", "18xlarge", "24xlarge"}}
    \cup {<<"t3">>}

ChainVmSizeChoices ==
    {VmSize(f[1], n, f[2]) :
        f \in {<<"Standard_D", "s_v3">>, <<"Standard_E", "s_v3">>, <<"Standard_F", "s_v2">>,
               <<"Standard_B", "s">>, <<"Standard_B", "ms">>, <<"Standard_NC", "">>},
        n \in {1, 2, 4, 6, 8, 12, 16, 20, 32, 64}}

\* averages of 4.0 % and 5.0 %
ChainAvgChoices == {[sum |-> 40, n |-> 1], [sum |-> 50, n |-> 1]}

InitChain ==
    /\ min_cpu_utilization = 50
    /\ min_uptime_hours = 168
    /\ s3_thresholds = DefaultThresholds
    /\ Constructed

EC2RecommendInstanceType ==
    /\ call = "none"
    /\ \E current_type \in ChainTypeChoices, avg_cpu \in ChainAvgChoices :
        /\ call' = "EC2Optimizer._recommend_instance_type"
        /\ args' = ChainArgs(current_type, avg_cpu, <<>>)
        /\ result' = Returned(ec2_recommend_instance_type(current_type, avg_cpu,
                                                          min_cpu_utilization))
        /\ UNCHANGED <<Config, Clients, tasks>>

EC2RecommendAgain ==
    /\ call = "EC2Optimizer._recommend_instance_type"
    /\ result.value # NoneType
    /\ Len(args.visited) < MaxChain
    /\ args' = ChainArgs(result.value, args.avg_cpu, Append(args.visited, args.current))
    /\ result' = Returned(ec2_recommend_instance_type(result.value, args.avg_cpu,
                                                      min_cpu_utilization))
    /\ UNCHANGED <<Config, Clients, tasks, call>>

VMRecommendVmSize ==
    /\ call = "none"
    /\ \E current_size \in ChainVmSizeChoices, avg_cpu \in ChainAvgChoices :
        /\ call' = "VMOptimizer._recommend_vm_size"
        /\ args' = ChainArgs(current_size, avg_cpu, <<>>)
        /\ result' = Returned(vm_recommend_vm_size(current_size, avg_cpu,
                                                   min_cpu_utilization))
        /\ UNCHANGED <<Config, Clients, tasks>>

VMRecommendAgain ==
    /\ call = "VMOptimizer._recommend_vm_size"
    /\ result.value # NoneType
    /\ Len(args.visited) < MaxChain
    /\ args' = ChainArgs(result.value, args.avg_cpu, Append(args.visited, args.current))
    /\ result' = Returned(vm_recommend_vm_size(result.value, args.avg_cpu,
                                               min_cpu_utilization))
    /\ UNCHANGED <<Config, Clients, tasks, call>>

NextChain ==
    \/ EC2RecommendInstanceType
    \/ EC2RecommendAgain
    \/ VMRecommendVmSize
    \/ VMRecommendAgain

SpecChain == InitChain /\ [][NextChain]_vars

(***************************************************************************)
(* ReportGenerator._process_recommendations: the cross-provider merge      *)
(*                                                                         *)
(* The dicts the rules append carry their identifier under 'instance_id'   *)
(* (EC2), 'vm_id' (Azure VM) and 'resource_id' (S3), and their savings     *)
(* under 'estimated_monthly_savings' (EC2, Azure VM) and                   *)
(* 'potential_savings' (S3).  A merged item's estimated_savings is in      *)
(* USD x 1e4 like the EC2 and VM savings.                                  *)
(***************************************************************************)
MaxReported == 1        \* resources each provider lists before a report

\* the dict an EC2 rule appends
ec2_recommendation_dict(rec) ==
    [instance_id |-> rec.resource_id, region |-> rec.region,
     recommendation_type |-> rec.recommendation_type,
     estimated_monthly_savings |-> rec.estimated_monthly_savings,
     confidence |-> rec.confidence]

\* the dict an Azure VM rule appends
vm_recommendation_dict(rec) ==
    [vm_id |-> rec.resource_id, subscription_id |-> rec.subscription_id,
     region |-> rec.region, recommendation_type |-> rec.recommendation_type,
     estimated_monthly_savings |-> rec.estimated_monthly_savings,
     confidence |-> rec.confidence]

\* the `recommendations` dict main.py hands to the report: provider 'all', no
\* service filter, one region and one subscription configured
report_recommendations(ec2_answer, s3_answer, vm_answer, min_cpu, min_uptime, th) ==
    LET ec2 == ec2_generate_recommendations(<<Regions[1]>>,
                    [r \in {Regions[1]} |-> ec2_answer], min_cpu, min_uptime)
        s3 == s3_generate_recommendations(s3_answer, th)
        vm == vm_generate_recommendations(<<SubscriptionIds[1]>>,
                    [s \in {SubscriptionIds[1]} |-> vm_answer], min_cpu)
    IN [aws |-> [ec2 |-> [k \in 1..Len(ec2) |-> ec2_recommendation_dict(ec2[k])],
                 s3 |-> s3],
        azure |-> [vm |-> [k \in 1..Len(vm) |-> vm_recommendation_dict(vm[k])]]]

\* one processed item: the identifier and the savings are read with
\* item.get(key, default)
ReportItem(provider, service, item, id_key) ==
    [cloud_provider |-> provider, service |-> service,
     resource_id |-> DictGet(item, id_key, "N/A"),
     recommendation_type |-> DictGet(item, "recommendation_type", "N/A"),
     estimated_savings |-> DictGet(item, "estimated_monthly_savings", 0)]

\* the items of one service, when the provider and the service are present
ReportItems(recommendations, provider_key, service_key, provider, service, id_key) ==
    IF provider_key \in DOMAIN recommendations
       /\ service_key \in DOMAIN recommendations[provider_key]
    THEN LET items == recommendations[provider_key][service_key]
         IN [k \in 1..Len(items) |-> ReportItem(provider, service, items[k], id_key)]
    ELSE <<>>

\* processed_items.sort(key=estimated_savings, reverse=True): stable
RECURSIVE InsertItemDesc(_, _)
InsertItemDesc(sorted, item) ==
    IF sorted = <<>> THEN <<item>>
    ELSE IF Head(sorted).estimated_savings >= item.estimated_savings
         THEN <<Head(sorted)>> \o InsertItemDesc(Tail(sorted), item)
         ELSE <<item>> \o sorted

RECURSIVE SortItemsFrom(_, _)
SortItemsFrom(items, sorted) ==
    IF items = <<>> THEN sorted
    ELSE SortItemsFrom(Tail(items), InsertItemDesc(sorted, Head(items)))

\* ReportGenerator._process_recommendations
process_recommendations(recommendations) ==
    SortItemsFrom(
        ReportItems(recommendations, "aws", "ec2", "AWS", "EC2", "instance_id")
        \o ReportItems(recommendations, "aws", "s3", "AWS", "S3", "bucket_name")
        \o ReportItems(recommendations, "azure", "vm", "Azure", "VM", "vm_id"),
        <<>>)

\* total_savings of the HTML and JSON reports
report_total_savings(data) ==
    SumSeq([k \in 1..Len(data) |-> data[k].estimated_savings])

ReportedRegionAnswers ==
    {[enum_fails |-> TRUE, instances |-> <<>>]}
    \cup {[enum_fails |-> FALSE, instances |-> WithInstanceIds(i)] :
            i \in SeqsUpTo(RunInstanceChoices, MaxReported)}

ReportedListings ==
    {[list_fails |-> TRUE, buckets |-> <<>>]}
    \cup {[list_fails |-> FALSE, buckets |-> WithBucketNames(b)] :
            b \in SeqsUpTo(RepeatBucketChoices, MaxReported)}

ReportedSubscriptionAnswers ==
    {[enum_fails |-> TRUE, vms |-> <<>>]}
    \cup {[enum_fails |-> FALSE, vms |-> WithVmIds(v)] :
            v \in SeqsUpTo(RunVmChoices, MaxReported)}

InitReport ==
    /\ min_cpu_utilization \in MinCpuChoices
    /\ min_uptime_hours = 168
    /\ s3_thresholds = DefaultThresholds
    /\ Constructed

ReportProcessRecommendations ==
    /\ call = "none"
    /\ \E ec2_answer \in ReportedRegionAnswers, s3_answer \in ReportedListings,
          vm_answer \in ReportedSubscriptionAnswers :
        /\ call' = "ReportGenerator._process_recommendations"
        /\ args' = report_recommendations(ec2_answer, s3_answer, vm_answer,
                        min_cpu_utilization, min_uptime_hours, s3_thresholds)
        /\ result' = Returned(process_recommendations(args'))
        /\ UNCHANGED <<Config, Clients, tasks>>

NextReport == ReportProcessRecommendations

SpecReport == InitReport /\ [][NextReport]_vars

(***************************************************************************)
(* AWSResourceAnalyzer._analyze_ec2, one step per statement group          *)
(*                                                                         *)
(* result.value is ec2_data as built so far; args holds the loop's         *)
(* position: the index of the region, the local list `instances`, and the  *)
(* instance whose counters are updated but which is not appended yet.      *)
(* The pages of the paginator show only as the points where it may raise.  *)
(* CPU averages are in tenths of a percent.                                *)
(***************************************************************************)
MaxAnalyzed == 3        \* instances describe_instances yields in one analysis

AnalyzingCall == "AWSResourceAnalyzer._analyze_ec2 (running)"

AnalyzedCall == "AWSResourceAnalyzer._analyze_ec2"

\* instance['InstanceType'] and instance['State']['Name'] of a listed instance
AnalyzedInstanceChoices ==
    [instance_type : {<<"t2", "micro">>, <<"m5", "large">>},
     state : {"running", "stopped", "terminated", "pending"}]

\* what CloudWatch answers for CPUUtilization: it raises, it has no
\* datapoints, or it has one datapoint of 10.5 %
AnalyzedMetricChoices ==
    {MetricAnswer(TRUE, <<>>), MetricAnswer(FALSE, <<>>), MetricAnswer(FALSE, <<105>>)}

\* the initial ec2_data
ec2_data_initial ==
    [instances_by_region |-> <<>>,
     instances_by_type |-> <<>>,
     instances_by_state |-> [running |-> 0, stopped |-> 0, terminated |-> 0, other |-> 0],
     total_instances |-> 0,
     utilization |-> <<>>]

\* d[key] = value of a dict, the other keys kept
DictSet(d, key, value) ==
    [k \in DOMAIN d \cup {key} |-> IF k = key THEN value ELSE d[k]]

\* the branch of the if / elif chain over the state name
StateCounter(state) ==
    IF state \in {"running", "stopped", "terminated"} THEN state ELSE "other"

\* "Update counters" and "Update instance type counts" for one instance
analyze_count(ec2_data, instance) ==
    [ec2_data EXCEPT
        !.total_instances = @ + 1,
        !.instances_by_state[StateCounter(instance.state)] = @ + 1,
        !.instances_by_type =
            DictSet(@, instance.instance_type, DictGet(@, instance.instance_type, 0) + 1)]

\* AWSResourceAnalyzer._get_ec2_utilization for CPUUtilization: 0.0 unless
\* CloudWatch answers with datapoints; an exception of CloudWatch is caught
get_ec2_utilization(metric) ==
    IF metric.fails \/ metric.datapoints = <<>> THEN 0
    ELSE SumSeq(metric.datapoints) \div Len(metric.datapoints)

\* the instance details appended to `instances`; utilization is {} unless the
\* instance is running
analyze_details(instance, metric) ==
    [instance_type |-> instance.instance_type, state |-> instance.state,
     utilization |-> IF instance.state = "running"
                     THEN <<get_ec2_utilization(metric)>> ELSE <<>>]

\* what is stored under the region after the try / except: the local list,
\* whether or not the enumeration raised
analyze_region_data_on_success(instances, raised) ==
    IF raised THEN <<>> ELSE instances

analyze_region_data(instances, raised) == instances

\* the CPU values of the running instances of all regions, region by region
RECURSIVE utilization_values(_, _)
utilization_values(by_region, regions) ==
    IF regions = <<>> THEN <<>>
    ELSE (IF Head(regions) \in DOMAIN by_region
          THEN LET running == SelectSeq(by_region[Head(regions)],
                                        LAMBDA i : i.state = "running")
               IN [k \in 1..Len(running) |-> running[k].utilization[1]]
          ELSE <<>>)
         \o utilization_values(by_region, Tail(regions))

\* "Calculate averages": the mean as [sum, n], no entry without values
analyze_utilization(by_region, regions) ==
    LET values == utilization_values(by_region, regions)
    IN IF values = <<>> THEN <<>>
       ELSE <<[sum |-> SumSeq(values), n |-> Len(values)]>>

AnalyzerPosition(region, instances, counted, raised) ==
    [region |-> region, instances |-> instances, counted |-> counted, raised |-> raised]

InitAnalyzer ==
    /\ min_cpu_utilization = 50
    /\ min_uptime_hours = 168
    /\ s3_thresholds = DefaultThresholds
    /\ Constructed

\* ec2_data is initialised and the loop over ec2_clients.items() starts
AnalyzeEc2Begin ==
    /\ call = "none"
    /\ call' = AnalyzingCall
    /\ args' = AnalyzerPosition(1, <<>>, <<>>, {})
    /\ result' = Returned(ec2_data_initial)
    /\ UNCHANGED <<Config, Clients, tasks>>

\* the paginator yields one more instance of the region: its counters are
\* updated
AnalyzeEc2Count ==
    /\ call = AnalyzingCall
    /\ args.region <= Len(Regions)
    /\ args.counted = <<>>
    /\ result.value.total_instances < MaxAnalyzed
    /\ \E instance \in AnalyzedInstanceChoices :
        /\ result' = Returned(analyze_count(result.value, instance))
        /\ args' = [args EXCEPT !.counted = <<instance>>]
    /\ UNCHANGED <<Config, Clients, tasks, call>>

\* the utilization of the counted instance is read and its details are
\* appended to the local list
AnalyzeEc2Append ==
    /\ call = AnalyzingCall
    /\ args.counted # <<>>
    /\ \E metric \in AnalyzedMetricChoices :
        args' = [args EXCEPT
                    !.instances = Append(@, analyze_details(args.counted[1], metric)),
                    !.counted = <<>>]
    /\ UNCHANGED <<Config, Clients, tasks, call, result>>

\* the enumeration of the region ends, exhausted or by an exception (of the
\* paginator between two pages, or a KeyError of an instance that lacks
\* 'InstanceId', 'InstanceType' or 'State', raised before its counters are
\* touched): "Add region data"
AnalyzeEc2RegionDone ==
    /\ call = AnalyzingCall
    /\ args.region <= Len(Regions)
    /\ args.counted = <<>>
    /\ \E raised \in BOOLEAN :
        /\ result' = Returned([result.value EXCEPT
                !.instances_by_region =
                    DictSet(@, Regions[args.region],
                            analyze_region_data(args.instances, raised))])
        /\ args' = AnalyzerPosition(args.region + 1, <<>>, <<>>,
                        IF raised THEN args.raised \cup {Regions[args.region]}
                        ELSE args.raised)
    /\ UNCHANGED <<Config, Clients, tasks, call>>

\* after the last region: the averages, and return ec2_data
AnalyzeEc2Return ==
    /\ call = AnalyzingCall
    /\ args.region > Len(Regions)
    /\ call' = AnalyzedCall
    /\ result' = Returned([result.value EXCEPT
            !.utilization = analyze_utilization(result.value.instances_by_region, Regions)])
    /\ UNCHANGED <<Config, Clients, tasks, args>>

NextAnalyzer ==
    \/ AnalyzeEc2Begin
    \/ AnalyzeEc2Count
    \/ AnalyzeEc2Append
    \/ AnalyzeEc2RegionDone
    \/ AnalyzeEc2Return

SpecAnalyzer == InitAnalyzer /\ [][NextAnalyzer]_vars

(***************************************************************************)
(* Properties                                                              *)
(***************************************************************************)
\* positions of the recommendations of one type for one resource
RecsFor(recs, id, rtype) ==
    {j \in 1..Len(recs) : recs[j].resource_id = <<id>> /\ recs[j].recommendation_type = rtype}

RecsForBucket(recs, name) ==
    {j \in 1..Len(recs) :
        recs[j].resource_id = name /\ recs[j].recommendation_type = "Change Storage Class"}

\* the metric of an instance has datapoints
MeanKnown(i) == ~i.metric.fails /\ i.metric.datapoints # <<>>

MeanSum(i) == SumAverages(i.metric.datapoints)

MeanN(i) == Len(i.metric.datapoints)

\* the type of an instance is family.size with size a key of the downgrade map
HasDowngrade(i) ==
    Len(i.instance_type) = 2 /\ i.instance_type[2] \in DOMAIN ec2_size_map

\* CPU of a VM in tenths of a percent, as the md5 of its name gives it
VmCpu(vm) == (vm.name_hash[1] % 195) + 5

VmMeasured(vm) == vm.power_state = "running" /\ vm.name_hash # <<>>

ReturnedFrom(method) == call = method /\ ~result.raised

\* C3: the Rightsize and Idle rules compare strictly: an instance (VM) whose
\* average CPU equals the rule's threshold (min_cpu_utilization for Rightsize,
\* 1.0 for Idle) gets no recommendation of the rule, one whose average is below
\* it gets one (for Rightsize: when its size has a downgrade entry).
C3_StrictThreshold ==
    /\ ReturnedFrom("EC2Optimizer._find_underutilized_instances") =>
        \A k \in 1..Len(args) :
            LET i == args[k]
                recs == RecsFor(result.value, i.instance_id, "Rightsize Instance")
            IN MeanKnown(i) =>
                /\ MeanSum(i) = min_cpu_utilization * MeanN(i) => recs = {}
                /\ MeanSum(i) < min_cpu_utilization * MeanN(i) /\ HasDowngrade(i)
                      => recs # {}
    /\ ReturnedFrom("EC2Optimizer._find_idle_instances") =>
        \A k \in 1..Len(args) :
            LET i == args[k]
                recs == RecsFor(result.value, i.instance_id, "Terminate Idle Instance")
            IN MeanKnown(i) =>
                /\ MeanSum(i) = 10 * MeanN(i) => recs = {}
                /\ MeanSum(i) < 10 * MeanN(i) => recs # {}
    /\ ReturnedFrom("VMOptimizer._find_underutilized_vms") =>
        \A k \in 1..Len(args) :
            LET vm == args[k]
                recs == RecsFor(result.value, vm.id, "Rightsize VM")
            IN VmMeasured(vm) =>
                /\ VmCpu(vm) = min_cpu_utilization => recs = {}
                /\ VmCpu(vm) < min_cpu_utilization /\ vm.vm_size \in DOMAIN vm_size_map
                      => recs # {}
    /\ ReturnedFrom("VMOptimizer._find_idle_vms") =>
        \A k \in 1..Len(args) :
            LET vm == args[k]
                recs == RecsFor(result.value, vm.id, "Stop or Deallocate Idle VM")
            IN VmMeasured(vm) =>
                /\ VmCpu(vm) = 10 => recs = {}
                /\ VmCpu(vm) < 10 => recs # {}

\* C3 witness: with the default threshold 5.0, a t3.xlarge at exactly 5.0 % next
\* to a t3.xlarge at 4.0 %: the rule returned one recommendation, for the second
C3_Witness ==
    /\ ReturnedFrom("EC2Optimizer._find_underutilized_instances")
    /\ min_cpu_utilization = 50
    /\ Len(args) = 2
    /\ args[1].instance_type = <<"t3", "xlarge">>
    /\ args[1].metric = Answers(<<Dp(50)>>)
    /\ args[2].instance_type = <<"t3", "xlarge">>
    /\ args[2].metric = Answers(<<Dp(40)>>)
    /\ Len(result.value) = 1
    /\ result.value[1].resource_id = <<"i-2">>

IsRightsize(r) == r.recommendation_type \in {"Rightsize Instance", "Rightsize VM"}

\* C7: no Rightsize recommendation is emitted with estimated_monthly_savings
\* <= 0.
C7_NoNonPositiveRightsize ==
    (/\ call \in {"EC2Optimizer._find_underutilized_instances",
                  "VMOptimizer._find_underutilized_vms"}
     /\ ~result.raised) =>
        \A j \in 1..Len(result.value) :
            IsRightsize(result.value[j]) => result.value[j].estimated_monthly_savings > 0

\* C8: an instance with average CPU below min_cpu_utilization whose size has a
\* downgrade entry gets exactly one Rightsize recommendation: its target is the
\* same family with the mapped size, its savings are (price(current) -
\* price(target)) * 24 * 30 when both are in the price table, its confidence is
\* High when the average is below 2.0 and Medium otherwise.
C8_RightsizeRecommendation ==
    ReturnedFrom("EC2Optimizer._find_underutilized_instances") =>
        \A k \in 1..Len(args) :
            LET i == args[k]
                recs == RecsFor(result.value, i.instance_id, "Rightsize Instance")
            IN (MeanKnown(i) /\ MeanSum(i) < min_cpu_utilization * MeanN(i)
                /\ HasDowngrade(i)) =>
                /\ Cardinality(recs) = 1
                /\ \A j \in recs :
                    LET r == result.value[j]
                        target == <<i.instance_type[1], ec2_size_map[i.instance_type[2]]>>
                    IN /\ r.current_type = i.instance_type
                       /\ r.recommended_type = target
                       /\ (i.instance_type \in DOMAIN ec2_pricing
                           /\ target \in DOMAIN ec2_pricing) =>
                             r.estimated_monthly_savings =
                                (ec2_pricing[i.instance_type] - ec2_pricing[target]) * 720
                       /\ r.confidence =
                            IF MeanSum(i) < 20 * MeanN(i) THEN "High" ELSE "Medium"

\* C8 witness: the scenario of test_find_underutilized_instances, a t3.xlarge
\* with datapoints 3.0, 2.0, 4.0 under the threshold 5.0: t3.large, Medium,
\* (0.1664 - 0.0832) * 720
C8_Witness ==
    /\ ReturnedFrom("EC2Optimizer._find_underutilized_instances")
    /\ min_cpu_utilization = 50
    /\ Len(args) = 1
    /\ args[1].instance_type = <<"t3", "xlarge">>
    /\ args[1].metric = Answers(<<Dp(30), Dp(20), Dp(40)>>)
    /\ Len(result.value) = 1
    /\ result.value[1].recommended_type = <<"t3", "large">>
    /\ result.value[1].confidence = "Medium"
    /\ result.value[1].estimated_monthly_savings = 599040

IsReserved(r) == r.recommendation_type = "Purchase Reserved Instances"

\* positions of the Reserved-Capacity recommendations for a type (size), region
ReservedFor(recs, t, region) ==
    {j \in 1..Len(recs) :
        IsReserved(recs[j]) /\ recs[j].current_type = t /\ recs[j].region = region}

\* the members of a group that meet the minimum-uptime gate: elapsed time since
\* creation at least min_uptime_hours
QualifyingInstances(instances, t) ==
    {k \in 1..Len(instances) :
        /\ instances[k].instance_type = t
        /\ instances[k].launch_time # <<>>
        /\ instances[k].launch_time[1] >= min_uptime_hours}

QualifyingVms(vms, size, location) ==
    {k \in 1..Len(vms) :
        /\ vms[k].vm_size = size
        /\ vms[k].location = location
        /\ vms[k].power_state = "running"
        /\ vms[k].age >= min_uptime_hours}

\* C4: a group with exactly 1 qualifying member never produces a Purchase
\* Reserved Instances recommendation, a group with exactly 2 always produces
\* exactly one (EC2 and Azure VM).
C4_GroupingGate ==
    /\ ReturnedFrom("EC2Optimizer._find_ri_opportunities") =>
        \A k \in 1..Len(args) :
            LET t == args[k].instance_type
                n == Cardinality(QualifyingInstances(args, t))
                recs == ReservedFor(result.value, t, "us-east-1")
            IN /\ n = 1 => recs = {}
               /\ n = 2 => Cardinality(recs) = 1
    /\ ReturnedFrom("VMOptimizer._find_ri_opportunities") =>
        \A k \in 1..Len(args) :
            LET n == Cardinality(QualifyingVms(args, args[k].vm_size, args[k].location))
                recs == ReservedFor(result.value, args[k].vm_size, args[k].location)
            IN /\ n = 1 => recs = {}
               /\ n = 2 => Cardinality(recs) = 1

\* the discount claimed: 60 % from 5 members on, 35 % below
TieredPercent(count) == IF count >= 5 THEN 60 ELSE 35

C6_UptimeGate ==
    /\ ReturnedFrom("EC2Optimizer._find_ri_opportunities") =>
        \A j \in 1..Len(result.value) :
            LET r == result.value[j]
            IN r.count = Cardinality(QualifyingInstances(args, r.current_type))
    /\ ReturnedFrom("VMOptimizer._find_ri_opportunities") =>
        \A j \in 1..Len(result.value) :
            LET r == result.value[j]
            IN r.count = Cardinality(QualifyingVms(args, r.current_type, r.region))

\* the size magnitude of an EC2 size, in quarters (nano 0.25 is 1)
Magnitude4(size) == ec2_size_multipliers[size]

\* C9: when the current or the target size is missing from the price table,
\* the downsizing savings are (magnitude(current) - magnitude(target)) * 0.10 *
\* 24 * 30, the exact formula applied to synthetic prices magnitude * 0.10.
C9_SyntheticPriceEstimate ==
    /\ ReturnedFrom("EC2Optimizer._calculate_downsizing_savings") =>
        LET cur == args[1]
            rec == args[2]
        IN (/\ (cur \notin DOMAIN ec2_pricing \/ rec \notin DOMAIN ec2_pricing)
            /\ Len(cur) = 2 /\ Len(rec) = 2
            /\ cur[2] \in DOMAIN ec2_size_multipliers
            /\ rec[2] \in DOMAIN ec2_size_multipliers) =>
              result.value = (Magnitude4(cur[2]) - Magnitude4(rec[2])) * 250 * 720
    /\ ReturnedFrom("VMOptimizer._calculate_downsizing_savings") =>
        LET cur == args[1]
            rec == args[2]
        IN (/\ (cur \notin DOMAIN vm_pricing \/ rec \notin DOMAIN vm_pricing)
            /\ cur.num > 0 /\ rec.num > 0) =>
              result.value = (cur.num - rec.num) * 1000 * 720

StrictlyIncreasing(th) == th.ia < th.glacier /\ th.glacier < th.deep_archive

\* the storage class and savings the tiers call for after `days` without access
DeepestTier(days, th) ==
    IF days > th.deep_archive THEN "DEEP_ARCHIVE"
    ELSE IF days > th.glacier THEN "GLACIER"
    ELSE "STANDARD_IA"

TierRate(class) ==
    CASE class = "DEEP_ARCHIVE" -> 990
      [] class = "GLACIER"      -> 4000
      [] OTHER                  -> 12500

\* C2: with increasing thresholds, a bucket at or above the size floor with a
\* known last access beyond the IA threshold gets the deepest tier whose
\* threshold its days-since-access exceed, with that tier's savings.
C2_DeepestTier ==
    (ReturnedFrom("S3Optimizer._find_storage_class_opportunities")
     /\ StrictlyIncreasing(s3_thresholds)) =>
        \A k \in 1..Len(args) :
            LET b == args[k]
                recs == RecsForBucket(result.value, b.name)
            IN (b.size >= s3_thresholds.min_size /\ b.last_accessed # <<>>
                /\ b.last_accessed[1] > s3_thresholds.ia) =>
                /\ Cardinality(recs) = 1
                /\ \A j \in recs :
                    LET class == DeepestTier(b.last_accessed[1], s3_thresholds)
                    IN /\ result.value[j].recommended_storage_class = class
                       /\ result.value[j].potential_savings =
                            b.size * (23000 - TierRate(class)) * 12

Savings(recs) == [k \in 1..Len(recs) |-> recs[k].estimated_monthly_savings]

\* C1: the list generate_recommendations returns (EC2 and Azure VM) is in
\* descending order of estimated_monthly_savings: of two adjacent items the
\* earlier one's savings are >= the later one's.
C1_SortedDescending ==
    (call \in {"EC2Optimizer.generate_recommendations",
               "VMOptimizer.generate_recommendations"}) =>
        \A j \in 1..(Len(result.value) - 1) :
            result.value[j].estimated_monthly_savings
                >= result.value[j + 1].estimated_monthly_savings

\* C1 witness: an EC2 run whose rules produced three recommendations in the
\* order middle, highest, lowest, returned as highest, middle, lowest
C1_Witness ==
    /\ call = "EC2Optimizer.generate_recommendations"
    /\ LET collected == ec2_all_recommendations(Regions, args, min_cpu_utilization,
                                                min_uptime_hours)
       IN /\ Len(collected) = 3
          /\ Savings(collected)[1] < Savings(collected)[2]
          /\ Savings(collected)[3] < Savings(collected)[1]
          /\ Savings(result.value) =
                <<Savings(collected)[2], Savings(collected)[1], Savings(collected)[3]>>

\* the answers of a run with the instances whose classification raises removed
\* (the others keep their ids)
RECURSIVE WithoutRaising(_, _)
WithoutRaising(instances, min_cpu) ==
    IF instances = <<>> THEN <<>>
    ELSE (IF ec2_underutilized_raises(Head(instances), min_cpu)
          THEN <<>> ELSE <<Head(instances)>>)
         \o WithoutRaising(Tail(instances), min_cpu)

RecsOfInstance(recs, region, id) ==
    {recs[j] : j \in {k \in 1..Len(recs) :
                        recs[k].region = region /\ recs[k].resource_id = <<id>>}}

\* C10: an instance whose classification raises does not abort the rest: every
\* other instance of the run gets the recommendations it would get were the
\* raising instance absent.
C10_PerResourceIsolation ==
    call = "EC2Optimizer.generate_recommendations" =>
        LET absent ==
                [r \in DOMAIN args |->
                    [args[r] EXCEPT !.instances =
                        WithoutRaising(args[r].instances, min_cpu_utilization)]]
            expected == ec2_generate_recommendations(Regions, absent,
                            min_cpu_utilization, min_uptime_hours)
        IN \A r \in DOMAIN args :
            \A k \in 1..Len(absent[r].instances) :
                LET id == absent[r].instances[k].instance_id
                IN RecsOfInstance(result.value, r, id) = RecsOfInstance(expected, r, id)

\* the metric of an instance is absent: the fetch failed or held no datapoints
MetricAbsent(i) == i.metric.fails \/ i.metric.datapoints = <<>>

RuleCalls ==
    {"EC2Optimizer._find_underutilized_instances", "EC2Optimizer._find_idle_instances"}

\* C11: an instance whose utilization metric is absent (fetch failed, or no
\* datapoints) gets neither a Rightsize nor an Idle recommendation, and a fleet
\* of such instances makes no rule raise, whatever the instance types are: the
\* absent metric is not read as 0.
C11_AbsentMetricNoRule ==
    call \in RuleCalls =>
        /\ (\A k \in 1..Len(args) : MetricAbsent(args[k])) =>
                ~result.raised /\ result.value = <<>>
        /\ ~result.raised =>
            \A k \in 1..Len(args) :
                MetricAbsent(args[k]) =>
                    \A j \in 1..Len(result.value) :
                        result.value[j].resource_id # <<args[k].instance_id>>

\* C11 witness: the Idle rule ran over an instance whose fetch failed between
\* two idle instances and returned recommendations for the two only
C11_Witness ==
    /\ ReturnedFrom("EC2Optimizer._find_idle_instances")
    /\ Len(args) = 3
    /\ args[2].metric.fails
    /\ Len(result.value) = 2
    /\ result.value[1].resource_id = <<"i-1">>
    /\ result.value[2].resource_id = <<"i-3">>

S3RecsFor(recs, name, rtype) ==
    {j \in 1..Len(recs) : recs[j].resource_id = name /\ recs[j].recommendation_type = rtype}

\* the NumberOfObjects metric of a bucket was retrieved: neither fetch raised
\* and the response held a datapoint
CountRetrieved(answer) ==
    ~answer.size.fails /\ ~answer.count.fails /\ answer.count.datapoints # <<>>

\* C12: a bucket whose object-count metric could not be retrieved (a fetch
\* raised, or the response held no datapoints) is not taken for an empty
\* bucket: it gets no Delete Bucket recommendation.
C12_AbsentCountNotEmpty ==
    ReturnedFrom("S3Optimizer._find_unused_buckets") =>
        \A k \in 1..Len(args) :
            ~CountRetrieved(args[k]) =>
                S3RecsFor(result.value, args[k].name, "Delete Bucket") = {}

\* the analysis of a region raises: a running instance below the threshold
\* whose type is None or has more than two parts
AnalysisFails(answer) ==
    \E k \in 1..Len(answer.instances) :
        LET i == answer.instances[k]
        IN /\ i.state = "running"
           /\ MeanKnown(i) /\ MeanSum(i) < min_cpu_utilization * MeanN(i)
           /\ (i.instance_type = NoneType \/ Len(i.instance_type) > 2)

InRegion(recs, r) ==
    LET Here(rec) == rec.region = r
    IN SelectSeq(recs, Here)

InSubscription(recs, sub) ==
    LET Here(rec) == rec.subscription_id = sub
    IN SelectSeq(recs, Here)

\* C13: in a run over several regions (subscriptions), a region whose
\* enumeration or analysis fails contributes no recommendation and does not
\* stop the run: the recommendations of every other region, before or after
\* it, are those of a run over that region alone, and nothing else is returned.
C13_RegionFailureIsolated ==
    /\ call = "EC2Optimizer.generate_recommendations" =>
        /\ ~result.raised
        /\ \A j \in 1..Len(result.value) : result.value[j].region \in Range(Regions)
        /\ \A r \in Range(Regions) :
            InRegion(result.value, r) =
                IF args[r].enum_fails \/ AnalysisFails(args[r])
                THEN <<>>
                ELSE ec2_generate_recommendations(<<r>>, args, min_cpu_utilization,
                                                  min_uptime_hours)
    /\ call = "VMOptimizer.generate_recommendations" =>
        /\ ~result.raised
        /\ \A j \in 1..Len(result.value) :
                result.value[j].subscription_id \in Range(SubscriptionIds)
        /\ \A sub \in Range(SubscriptionIds) :
            InSubscription(result.value, sub) =
                IF args[sub].enum_fails
                THEN <<>>
                ELSE vm_generate_recommendations(<<sub>>, args, min_cpu_utilization)

\* C13 witness: the analysis of the first region raised, the second region
\* lists an idle t3.micro, and the run returned the recommendation of the
\* second region
C13_Witness ==
    /\ call = "EC2Optimizer.generate_recommendations"
    /\ AnalysisFails(args[Regions[1]])
    /\ Len(args[Regions[2]].instances) = 1
    /\ args[Regions[2]].instances[1].instance_type = <<"t3", "micro">>
    /\ Len(result.value) = 1
    /\ result.value[1].region = Regions[2]
    /\ result.value[1].recommendation_type = "Terminate Idle Instance"

\* C14: the Idle rule gives an instance exactly one Terminate Idle Instance
\* recommendation when its average CPU is known and < 1.0 and none otherwise,
\* whatever min_cpu_utilization is; the savings are the hourly price of the
\* type (0.1 when the type is not in the price table) times 720, the
\* confidence is High when the average is < 0.5 and Medium otherwise.
C14_IdleRule ==
    call = "EC2Optimizer._find_idle_instances" =>
        /\ ~result.raised
        /\ \A k \in 1..Len(args) :
            LET i == args[k]
                recs == {j \in 1..Len(result.value) :
                            result.value[j].resource_id = <<i.instance_id>>}
                price == IF i.instance_type \in DOMAIN ec2_pricing
                         THEN ec2_pricing[i.instance_type] ELSE 1000
            IN IF MeanKnown(i) /\ MeanSum(i) < 10 * MeanN(i)
               THEN /\ Cardinality(recs) = 1
                    /\ \A j \in recs :
                        /\ result.value[j].recommendation_type = "Terminate Idle Instance"
                        /\ result.value[j].estimated_monthly_savings = price * 720
                        /\ result.value[j].confidence =
                            IF MeanSum(i) * 10 < 5 * 10 * MeanN(i) THEN "High" ELSE "Medium"
               ELSE recs = {}

\* C14 witness: with min_cpu_utilization 20.0, an instance of an unpriced type
\* at exactly 0.5 % got a Medium recommendation of 72.0, its neighbour at 0.0 %
\* a High one
C14_Witness ==
    /\ call = "EC2Optimizer._find_idle_instances"
    /\ min_cpu_utilization = 200
    /\ Len(args) = 2
    /\ args[1].instance_type = <<"x1", "xlarge">>
    /\ args[1].metric = Answers(<<Dp(5)>>)
    /\ Len(result.value) = 2
    /\ result.value[1].estimated_monthly_savings = 720000
    /\ result.value[1].confidence = "Medium"
    /\ result.value[2].confidence = "High"

\* C15: a Purchase Reserved Instances recommendation (EC2 and Azure VM) has
\* confidence High exactly when its count is > 5 and Medium otherwise.
C15_ReservedConfidence ==
    (ReturnedFrom("EC2Optimizer._find_ri_opportunities")
     \/ ReturnedFrom("VMOptimizer._find_ri_opportunities")) =>
        \A j \in 1..Len(result.value) :
            /\ result.value[j].recommendation_type = "Purchase Reserved Instances"
            /\ result.value[j].confidence \in {"High", "Medium"}
            /\ result.value[j].confidence = "High" <=> result.value[j].count > 5

\* C15 witness: the EC2 grouper returned a recommendation for a group of
\* exactly 5 instances with confidence Medium
C15_Witness ==
    /\ ReturnedFrom("EC2Optimizer._find_ri_opportunities")
    /\ Len(args) = 5
    /\ Len(result.value) = 1
    /\ result.value[1].count = 5
    /\ result.value[1].confidence = "Medium"

\* the resources that get a Rightsize recommendation from a call of the rule
Rightsized(outcome) ==
    IF outcome.raised THEN {}
    ELSE {outcome.value[j].resource_id : j \in 1..Len(outcome.value)}

\* C16: Rightsize is monotone in the threshold: for a fixed fleet and
\* utilization data, the resources that get a Rightsize recommendation with
\* min_cpu_utilization = t1 are among those that get one with any t2 >= t1.
C16_RightsizeMonotone ==
    /\ call = "EC2Optimizer._find_underutilized_instances" =>
        \A t2 \in MinCpuChoices :
            min_cpu_utilization <= t2 =>
                Rightsized(result) \subseteq
                    Rightsized(ec2_find_underutilized_instances(args, "us-east-1", t2))
    /\ call = "VMOptimizer._find_underutilized_vms" =>
        \A t2 \in MinCpuChoices :
            min_cpu_utilization <= t2 =>
                Rightsized(result) \subseteq
                    Rightsized(Returned(vm_find_underutilized_vms(args, "sub-1", t2)))

GenerateCalls ==
    {"EC2Optimizer.generate_recommendations", "VMOptimizer.generate_recommendations",
     "S3Optimizer.generate_recommendations"}

NoThresholdPassed ==
    /\ call = "EC2Optimizer.generate_recommendations" =>
        \A r \in DOMAIN args.input :
            \A k \in 1..Len(args.input[r].instances) :
                LET launch == args.input[r].instances[k].launch_time
                IN launch # <<>> =>
                    (launch[1] >= min_uptime_hours
                        <=> launch[1] + args.elapsed >= min_uptime_hours)
    /\ call = "S3Optimizer.generate_recommendations" =>
        \/ args.elapsed = 0
        \/ \A k \in 1..Len(args.input.buckets) :
                args.input.buckets[k].last_modified = <<>>

WithSavings(recs, v) ==
    LET Same(rec) == rec.estimated_monthly_savings = v
    IN SelectSeq(recs, Same)

\* what the rules of a run produced, before ranking: region by region, in each
\* region Rightsize, then Idle, then Reserved
Collected ==
    IF call = "EC2Optimizer.generate_recommendations"
    THEN ec2_all_recommendations(Regions, args, min_cpu_utilization, min_uptime_hours)
    ELSE vm_all_recommendations(SubscriptionIds, args, min_cpu_utilization)

\* C18: the ranking is stable and loses nothing: for every savings value, the
\* returned recommendations with that value are exactly the ones the rules
\* produced with it, in the order in which they were produced; so the output
\* is a permutation of the concatenated rule outputs.
C18_StableRanking ==
    (call \in {"EC2Optimizer.generate_recommendations",
               "VMOptimizer.generate_recommendations"}) =>
        /\ Len(result.value) = Len(Collected)
        /\ \A v \in Range(Savings(Collected)) \cup Range(Savings(result.value)) :
                WithSavings(result.value, v) = WithSavings(Collected, v)

\* C18 witness: a run in which two different recommendations with equal savings
\* were produced before one with higher savings; the ranking moved the higher
\* one to the front and kept the two in their order
C18_Witness ==
    /\ call = "EC2Optimizer.generate_recommendations"
    /\ Len(Collected) >= 3
    /\ Savings(Collected)[1] = Savings(Collected)[2]
    /\ Collected[1] # Collected[2]
    /\ Savings(Collected)[Len(Collected)] > Savings(Collected)[1]
    /\ result.value[1] = Collected[Len(Collected)]
    /\ result.value[2] = Collected[1]
    /\ result.value[3] = Collected[2]

\* the storage classes to which some rule of the bucket's policy transitions
TransitionClasses(bucket) ==
    UNION {Range(bucket.rules[k].transitions) :
              k \in {j \in 1..Len(bucket.rules) : bucket.rules[j].has_transitions}}

\* ten times the blended yearly saving of a size: 60 % at Standard - IA, 30 %
\* at Standard - Glacier, 10 % at Standard - Deep Archive, twelve months
Blended10(size) == size * 12 * (6 * 10500 + 3 * 19000 + 1 * 22010)

\* the fraction q is a tenth of x10 divided by parts
IsShareOfBlended(q, x10, parts) == q.num * 10 * parts = q.den * x10

\* the recommendations of a list that name the bucket, in order
OfBucket(recs, name) ==
    LET Names(rec) == rec.resource_id = name
    IN SelectSeq(recs, Names)

\* C19: for a bucket at or above the size floor the lifecycle rule emits one
\* Add Lifecycle Policy recommendation (three transitions at the configured
\* days, blended savings) when there is no policy, one Improve Lifecycle
\* Policy recommendation at half the blended savings when the policy lacks one
\* of the three transitions, and nothing when the policy has all three.
C19_LifecycleRule ==
    (call = "S3Optimizer._find_lifecycle_policy_opportunities") =>
        \A i \in 1..Len(args) :
            LET bucket == args[i]
                mine   == OfBucket(result.value, bucket.name)
            IN (bucket.size >= s3_thresholds.min_size) =>
                 IF ~bucket.has_lifecycle_policy
                 THEN /\ Len(mine) = 1
                      /\ mine[1].recommendation_type = "Add Lifecycle Policy"
                      /\ mine[1].transitions =
                            <<<<s3_thresholds.ia, "STANDARD_IA">>,
                              <<s3_thresholds.glacier, "GLACIER">>,
                              <<s3_thresholds.deep_archive, "DEEP_ARCHIVE">>>>
                      /\ IsShareOfBlended(mine[1].potential_savings,
                                          Blended10(bucket.size), 1)
                 ELSE IF {"STANDARD_IA", "GLACIER", "DEEP_ARCHIVE"}
                            \subseteq TransitionClasses(bucket)
                 THEN mine = <<>>
                 ELSE /\ Len(mine) = 1
                      /\ mine[1].recommendation_type = "Improve Lifecycle Policy"
                      /\ IsShareOfBlended(mine[1].potential_savings,
                                          Blended10(bucket.size), 2)

\* C19 witness: a 1 GiB bucket without policy gets the Add recommendation at
\* 2726.592 (1e-6 USD x 16 per unit, times ten in Blended10) and a 1 GiB
\* bucket whose policy only transitions to IA gets Improve at half of it
C19_Witness ==
    /\ call = "S3Optimizer._find_lifecycle_policy_opportunities"
    /\ Len(args) = 2
    /\ args[1].size = 16 /\ ~args[1].has_lifecycle_policy
    /\ args[2].size = 16 /\ args[2].has_lifecycle_policy
    /\ TransitionClasses(args[2]) = {"STANDARD_IA"}
    /\ Len(result.value) = 2
    /\ result.value[1].recommendation_type = "Add Lifecycle Policy"
    /\ result.value[1].potential_savings = [num |-> 27265920, den |-> 10]
    /\ result.value[2].recommendation_type = "Improve Lifecycle Policy"
    /\ result.value[2].potential_savings = [num |-> 27265920, den |-> 20]

\* some lifecycle rule of the bucket expires noncurrent versions
ExpiresNoncurrent(bucket) == \E k \in 1..Len(bucket.rules) : bucket.rules[k].noncurrent

\* C20: every bucket with versioning enabled and no noncurrent-version
\* expiration rule gets an Add Version Expiration recommendation, also when it
\* has no lifecycle policy at all; a bucket whose rules contain a
\* noncurrent-version expiration gets none.
C20_VersionExpiration ==
    (call = "S3Optimizer._find_versioning_optimization_opportunities") =>
        \A i \in 1..Len(args) :
            LET bucket == args[i]
                mine   == S3RecsFor(result.value, bucket.name, "Add Version Expiration")
            IN /\ (bucket.versioning /\ ~ExpiresNoncurrent(bucket)) => mine # {}
               /\ ExpiresNoncurrent(bucket) => mine = {}

\* the part of C20 that leaves out buckets without a lifecycle policy
C20_WithPolicyOnly ==
    (call = "S3Optimizer._find_versioning_optimization_opportunities") =>
        \A i \in 1..Len(args) :
            LET bucket == args[i]
                mine   == S3RecsFor(result.value, bucket.name, "Add Version Expiration")
            IN /\ (bucket.versioning /\ bucket.has_lifecycle_policy
                   /\ ~ExpiresNoncurrent(bucket)) => Cardinality(mine) = 1
               /\ ExpiresNoncurrent(bucket) => mine = {}

\* C21: a bucket with an object count of 0 yields exactly one recommendation,
\* a Delete Bucket with the fixed nominal savings 0.023 x 12 = 0.276, whatever
\* its size; a bucket with an object count above 0 yields none.
C21_EmptyBucketDeleted ==
    (call = "S3Optimizer._find_unused_buckets") =>
        \A k \in 1..Len(args) :
            LET bucket == MeasuredBuckets(args)[k]
                mine   == OfBucket(result.value, bucket.name)
            IN IF bucket.object_count = 0
               THEN /\ Len(mine) = 1
                    /\ mine[1].recommendation_type = "Delete Bucket"
                    /\ mine[1].potential_savings.num
                           = 276000 * 16 * mine[1].potential_savings.den
               ELSE mine = <<>>

\* C21 witness: an empty bucket of 1 GiB reported size and an empty bucket of
\* size 0 both get the Delete Bucket recommendation with the same savings
C21_Witness ==
    /\ call = "S3Optimizer._find_unused_buckets"
    /\ Len(args) = 2
    /\ args[1].count = MetricAnswer(FALSE, <<0>>) /\ args[1].size = MetricAnswer(FALSE, <<16>>)
    /\ args[2].count = MetricAnswer(FALSE, <<3, 0>>) /\ args[2].size = MetricAnswer(FALSE, <<>>)
    /\ Len(result.value) = 2
    /\ result.value[1].recommendation_type = "Delete Bucket"
    /\ result.value[2].recommendation_type = "Delete Bucket"
    /\ result.value[1].potential_savings = result.value[2].potential_savings
    /\ result.value[1].resource_id # result.value[2].resource_id

\* C22: a bucket below the size floor gets no Change Storage Class, Add
\* Lifecycle Policy or Improve Lifecycle Policy recommendation, whatever its
\* last-access age and lifecycle configuration; a bucket exactly at the floor
\* is not skipped: it gets the Change Storage Class recommendation when its
\* age exceeds the IA threshold and the lifecycle recommendation when its
\* policy is absent or incomplete.
C22_SizeFloor ==
    /\ (call = "S3Optimizer._find_storage_class_opportunities") =>
          \A k \in 1..Len(args) :
              LET mine == OfBucket(result.value, args[k].name)
              IN /\ (args[k].size < s3_thresholds.min_size) => mine = <<>>
                 /\ (/\ args[k].size = s3_thresholds.min_size
                     /\ args[k].last_accessed # <<>>
                     /\ args[k].last_accessed[1] > s3_thresholds.ia)
                      => /\ Len(mine) = 1
                         /\ mine[1].recommendation_type = "Change Storage Class"
    /\ (call = "S3Optimizer._find_lifecycle_policy_opportunities") =>
          \A k \in 1..Len(args) :
              LET mine == OfBucket(result.value, args[k].name)
              IN /\ (args[k].size < s3_thresholds.min_size) => mine = <<>>
                 /\ (/\ args[k].size = s3_thresholds.min_size
                     /\ ~({"STANDARD_IA", "GLACIER", "DEEP_ARCHIVE"}
                             \subseteq TransitionClasses(args[k])))
                      => /\ Len(mine) = 1
                         /\ mine[1].recommendation_type
                               \in {"Add Lifecycle Policy", "Improve Lifecycle Policy"}

\* C22 witness: with the floor at 1 GiB, a 128 MiB bucket last accessed 200
\* days ago gets nothing and a 1 GiB bucket of the same age gets the storage
\* class recommendation
C22_Witness ==
    /\ call = "S3Optimizer._find_storage_class_opportunities"
    /\ s3_thresholds.min_size = 16
    /\ Len(args) = 2
    /\ args[1].size = 2 /\ args[1].last_accessed = <<200>>
    /\ args[2].size = 16 /\ args[2].last_accessed = <<200>>
    /\ Len(result.value) = 1
    /\ result.value[1].resource_id = args[2].name
    /\ result.value[1].recommendation_type = "Change Storage Class"

\* the type of an instance is a string without separator, or family.size with
\* a size that is no key of the downgrade map
NoDowngrade(i) ==
    /\ i.instance_type # NoneType
    /\ \/ Len(i.instance_type) = 1
       \/ Len(i.instance_type) = 2 /\ i.instance_type[2] \notin DOMAIN ec2_size_map

\* the type of an instance is a string of at most one separator
WellFormedOrPlain(i) == i.instance_type # NoneType /\ Len(i.instance_type) <= 2

\* C23: an instance (VM) whose size has no entry in the downgrade map, or whose
\* type has no family/size separator, gets no Rightsize recommendation and
\* causes no error, whatever its utilization: a call over instances none of
\* which has a None type or a type of more than two parts returns.
C23_NoDowngradeNoRightsize ==
    /\ (call = "EC2Optimizer._find_underutilized_instances") =>
          /\ (\A k \in 1..Len(args) : WellFormedOrPlain(args[k])) => ~result.raised
          /\ ~result.raised =>
                \A k \in 1..Len(args) :
                    NoDowngrade(args[k]) =>
                        RecsFor(result.value, args[k].instance_id, "Rightsize Instance") = {}
    /\ (call = "VMOptimizer._find_underutilized_vms") =>
          /\ ~result.raised
          /\ \A k \in 1..Len(args) :
                (args[k].vm_size \notin DOMAIN vm_size_map) =>
                    RecsFor(result.value, args[k].id, "Rightsize VM") = {}

\* C23 witness: a t3.nano (no entry) at 0 % CPU between two t3.xlarge at 4.0 %:
\* the rule returned the recommendations of the two t3.xlarge only
C23_Witness ==
    /\ call = "EC2Optimizer._find_underutilized_instances"
    /\ ~result.raised
    /\ Len(args) = 3
    /\ args[2].instance_type = <<"t3", "nano">>
    /\ args[2].metric = Answers(<<Dp(0)>>)
    /\ Len(result.value) = 2
    /\ result.value[1].resource_id = <<"i-1">>
    /\ result.value[2].resource_id = <<"i-3">>

\* C24: running the per-region evaluations as concurrent tasks without locking
\* yields, for every interleaving, the recommendations that the loop over the
\* regions yields, each labelled with the region its instances were fetched
\* from.
C24_TasksAsLoop ==
    (call = MergedCall) =>
        Range(result.value)
            = Range(ec2_generate_recommendations(Regions, args, min_cpu_utilization,
                                                   min_uptime_hours))

TypesOf(recs) == {rec.recommendation_type : rec \in recs}

\* C25: with the underutilization threshold at or above 1.0 neither of the
\* Idle and Rightsize rules suppresses the other: every instance (VM) of a run
\* that gets the Idle recommendation and whose size has a downgrade entry also
\* gets a Rightsize recommendation, so the final list holds two
\* recommendations for it.
C25_IdleAlsoRightsized ==
    /\ (call = "EC2Optimizer.generate_recommendations" /\ min_cpu_utilization >= 10) =>
          \A r \in Range(Regions) : \A k \in 1..Len(args[r].instances) :
              LET i    == args[r].instances[k]
                  mine == RecsOfInstance(result.value, r, i.instance_id)
              IN ("Terminate Idle Instance" \in TypesOf(mine) /\ HasDowngrade(i))
                    => /\ "Rightsize Instance" \in TypesOf(mine)
                       /\ Cardinality(mine) = 2
    /\ (call = "VMOptimizer.generate_recommendations" /\ min_cpu_utilization >= 10) =>
          \A sub \in Range(SubscriptionIds) : \A k \in 1..Len(args[sub].vms) :
              LET vm   == args[sub].vms[k]
                  mine == {rec \in Range(result.value) :
                              rec.subscription_id = sub /\ rec.resource_id = <<vm.id>>}
              IN ("Stop or Deallocate Idle VM" \in TypesOf(mine)
                  /\ vm.vm_size \in DOMAIN vm_size_map)
                    => /\ "Rightsize VM" \in TypesOf(mine)
                       /\ Cardinality(mine) = 2

\* C25 witness: with the threshold at exactly 1.0, one t3.large at 0.5 % got a
\* Rightsize and a Terminate Idle recommendation
C25_Witness ==
    /\ call = "EC2Optimizer.generate_recommendations"
    /\ min_cpu_utilization = 10
    /\ Len(args["us-east-1"].instances) = 1
    /\ args["us-east-1"].instances[1].instance_type = <<"t3", "large">>
    /\ args["eu-west-1"].instances = <<>>
    /\ Len(result.value) = 2
    /\ TypesOf(Range(result.value)) = {"Rightsize Instance", "Terminate Idle Instance"}
    /\ result.value[1].resource_id = result.value[2].resource_id

\* C26: for instances that all meet the uptime gate, _find_ri_opportunities
\* returns a Purchase Reserved Instances recommendation for each distinct
\* instance type of the input, with count the number of input instances of
\* the type.
C26_EveryTypeReserved ==
    (/\ call = "EC2Optimizer._find_ri_opportunities"
     /\ \A k \in 1..Len(args) :
            ec2_get_instance_uptime_hours(args[k]) >= min_uptime_hours) =>
        \A k \in 1..Len(args) :
            LET t    == args[k].instance_type
                n    == Cardinality({j \in 1..Len(args) : args[j].instance_type = t})
                mine == {j \in 1..Len(result.value) :
                            /\ result.value[j].recommendation_type
                                  = "Purchase Reserved Instances"
                            /\ result.value[j].current_type = t}
            IN /\ Cardinality(mine) = 1
               /\ \A j \in mine : result.value[j].count = n

\* the part of C26 that leaves out the types with a single instance
C26_RepeatedTypeReserved ==
    (/\ call = "EC2Optimizer._find_ri_opportunities"
     /\ \A k \in 1..Len(args) :
            ec2_get_instance_uptime_hours(args[k]) >= min_uptime_hours) =>
        \A k \in 1..Len(args) :
            LET t    == args[k].instance_type
                n    == Cardinality({j \in 1..Len(args) : args[j].instance_type = t})
                mine == {j \in 1..Len(result.value) :
                            /\ result.value[j].recommendation_type
                                  = "Purchase Reserved Instances"
                            /\ result.value[j].current_type = t}
            IN IF n >= 2
               THEN Cardinality(mine) = 1 /\ \A j \in mine : result.value[j].count = n
               ELSE mine = {}

\* the magnitude of an EC2 size name in quarters of "small": nano 0.25, micro
\* 0.5, small 1, medium 2, large 4, xlarge 8, Nxlarge 8 N
SizeMagnitude(size) ==
    CASE size = "nano" -> 1 [] size = "micro" -> 2 [] size = "small" -> 4
      [] size = "medium" -> 8 [] size = "large" -> 16 [] size = "xlarge" -> 32
      [] size = "2xlarge" -> 64 [] size = "3xlarge" -> 96 [] size = "4xlarge" -> 128
      [] size = "6xlarge" -> 192 [] size = "8xlarge" -> 256 [] size = "9xlarge" -> 288
      [] size = "10xlarge" -> 320 [] size = "12xlarge" -> 384 [] size = "16xlarge" -> 512
      [] size = "18xlarge" -> 576 [] size = "24xlarge" -> 768

\* C27: the downgrade maps are strictly decreasing one-step maps: a returned
\* target differs from the source, stays in its family, has a strictly smaller
\* size magnitude and, where both are priced, a strictly lower hourly price;
\* a chain of repeated applications never comes back to a size it went
\* through and ends, within the number of sizes, at a size without entry.
C27_StrictlyDecreasingMap ==
    /\ (call = "EC2Optimizer._recommend_instance_type" /\ result.value # NoneType) =>
          LET source == args.current
              target == result.value
          IN /\ target # source
             /\ Len(target) = 2 /\ target[1] = source[1]
             /\ SizeMagnitude(target[2]) < SizeMagnitude(source[2])
             /\ (source \in DOMAIN ec2_pricing /\ target \in DOMAIN ec2_pricing)
                   => ec2_pricing[target] < ec2_pricing[source]
             /\ target \notin Range(args.visited)
             /\ Len(args.visited) < MaxChain - 1
    /\ (call = "VMOptimizer._recommend_vm_size" /\ result.value # NoneType) =>
          LET source == args.current
              target == result.value
          IN /\ target # source
             /\ target.prefix = source.prefix /\ target.suffix = source.suffix
             /\ target.num < source.num
             /\ (source \in DOMAIN vm_pricing /\ target \in DOMAIN vm_pricing)
                   => vm_pricing[target] < vm_pricing[source]
             /\ target \notin Range(args.visited)
             /\ Len(args.visited) < MaxChain - 1

\* C27 witness: the chain from m5.24xlarge has gone through 12xlarge, 6xlarge,
\* 3xlarge, xlarge, large and medium and ends at m5.small, which has no entry
C27_Witness ==
    /\ call = "EC2Optimizer._recommend_instance_type"
    /\ args.visited = <<<<"m5", "24xlarge">>, <<"m5", "12xlarge">>, <<"m5", "6xlarge">>,
                        <<"m5", "3xlarge">>, <<"m5", "xlarge">>, <<"m5", "large">>,
                        <<"m5", "medium">>>>
    /\ args.current = <<"m5", "small">>
    /\ result.value = NoneType

\* C28: for every instance type (VM size) with a downgrade target, the
\* Rightsize estimate is strictly smaller than the Terminate-Idle estimate of
\* the same instance, hourly price x 720, also when the current or the target
\* type is missing from the price table.
C28_RightsizeBelowIdle ==
    /\ ReturnedFrom("EC2Optimizer._calculate_downsizing_savings") =>
          LET cur == args[1]
              rec == args[2]
          IN (/\ cur # NoneType /\ Len(cur) = 2 /\ cur[2] \in DOMAIN ec2_size_map
              /\ rec = <<cur[1], ec2_size_map[cur[2]]>>) =>
                result.value < ec2_get_instance_hourly_cost(cur) * 24 * 30
    /\ ReturnedFrom("VMOptimizer._calculate_downsizing_savings") =>
          LET cur == args[1]
              rec == args[2]
          IN (cur \in DOMAIN vm_size_map /\ rec = vm_size_map[cur]) =>
                result.value < vm_get_vm_hourly_cost(cur) * 24 * 30

\* the part of C28 that holds: Azure sizes, and EC2 types priced together with
\* their target
C28_PricedRightsizeBelowIdle ==
    /\ ReturnedFrom("EC2Optimizer._calculate_downsizing_savings") =>
          LET cur == args[1]
              rec == args[2]
          IN (/\ cur \in DOMAIN ec2_pricing /\ rec \in DOMAIN ec2_pricing
              /\ cur[2] \in DOMAIN ec2_size_map
              /\ rec = <<cur[1], ec2_size_map[cur[2]]>>) =>
                result.value < ec2_get_instance_hourly_cost(cur) * 24 * 30
    /\ ReturnedFrom("VMOptimizer._calculate_downsizing_savings") =>
          LET cur == args[1]
              rec == args[2]
          IN (cur \in DOMAIN vm_size_map /\ rec = vm_size_map[cur]) =>
                result.value < vm_get_vm_hourly_cost(cur) * 24 * 30

\* the merged list holds an item of the service with the identifier, the type
\* and the savings (USD x 1e4) the rule's dict carries under the given keys
MergedAs(items, service, rec, id_key) ==
    \E j \in 1..Len(items) :
        /\ items[j].service = service
        /\ items[j].resource_id = rec[id_key]
        /\ items[j].recommendation_type = rec.recommendation_type
        /\ items[j].estimated_savings = rec.estimated_monthly_savings

\* the same for an S3 rule's dict, whose savings are a fraction of USD x 1e6
MergedAsBucket(items, rec) ==
    \E j \in 1..Len(items) :
        /\ items[j].service = "S3"
        /\ items[j].resource_id = rec.resource_id
        /\ items[j].recommendation_type = rec.recommendation_type
        /\ items[j].estimated_savings * 100 * rec.potential_savings.den
                = rec.potential_savings.num

MergedDescending(items) ==
    \A j \in 1..Len(items) - 1 :
        items[j].estimated_savings >= items[j + 1].estimated_savings

\* C29: the merge of _process_recommendations preserves each rule's result:
\* every recommendation of the EC2, S3 and Azure VM optimizers has a merged
\* item whose estimated_savings is the savings the rule computed and whose
\* resource_id is the rule's resource identifier, and the merged list is in
\* descending order of that savings.
C29_MergePreservesRules ==
    ReturnedFrom("ReportGenerator._process_recommendations") =>
        /\ Len(result.value)
            = Len(args.aws.ec2) + Len(args.aws.s3) + Len(args.azure.vm)
        /\ \A k \in 1..Len(args.aws.ec2) :
                MergedAs(result.value, "EC2", args.aws.ec2[k], "instance_id")
        /\ \A k \in 1..Len(args.azure.vm) :
                MergedAs(result.value, "VM", args.azure.vm[k], "vm_id")
        /\ \A k \in 1..Len(args.aws.s3) :
                MergedAsBucket(result.value, args.aws.s3[k])
        /\ MergedDescending(result.value)

\* what holds of the merge: the EC2 and Azure VM recommendations keep their
\* identifier and savings, the list is descending, and the total is the sum
\* of the EC2 and Azure VM savings alone
C29_ComputeRulesPreserved ==
    ReturnedFrom("ReportGenerator._process_recommendations") =>
        /\ Len(result.value)
            = Len(args.aws.ec2) + Len(args.aws.s3) + Len(args.azure.vm)
        /\ \A k \in 1..Len(args.aws.ec2) :
                MergedAs(result.value, "EC2", args.aws.ec2[k], "instance_id")
        /\ \A k \in 1..Len(args.azure.vm) :
                MergedAs(result.value, "VM", args.azure.vm[k], "vm_id")
        /\ MergedDescending(result.value)
        /\ report_total_savings(result.value)
            = SumSeq([k \in 1..Len(args.aws.ec2) |->
                        args.aws.ec2[k].estimated_monthly_savings])
              + SumSeq([k \in 1..Len(args.azure.vm) |->
                        args.azure.vm[k].estimated_monthly_savings])

\* every merged S3 item carries the defaults of item.get: 'N/A' and 0
C29_BucketItemsDefaulted ==
    ReturnedFrom("ReportGenerator._process_recommendations") =>
        \A j \in 1..Len(result.value) :
            result.value[j].service = "S3" =>
                /\ result.value[j].resource_id = "N/A"
                /\ result.value[j].estimated_savings = 0

\* a report with an S3 recommendation of positive savings among EC2 ones
C29_BucketReported ==
    /\ ReturnedFrom("ReportGenerator._process_recommendations")
    /\ Len(args.aws.ec2) > 0
    /\ \E k \in 1..Len(args.aws.s3) : args.aws.s3[k].potential_savings.num > 0

\* the sum of the values of a dict
RECURSIVE SumValues(_, _)
SumValues(d, keys) ==
    IF keys = {} THEN 0
    ELSE LET k == CHOOSE x \in keys : TRUE
         IN d[k] + SumValues(d, keys \ {k})

\* the number of records listed across a dict of lists
ListedRecords(by_region) ==
    SumValues([r \in DOMAIN by_region |-> Len(by_region[r])], DOMAIN by_region)

\* C30: after _analyze_ec2, whatever the regions list and also when the
\* enumeration of a region raises partway through, total_instances equals the
\* sum of the instances_by_state counters, the sum of the instances_by_type
\* counters, and the number of instance records across instances_by_region.
C30_CountersAgree ==
    ReturnedFrom(AnalyzedCall) =>
        LET d == result.value
        IN /\ d.total_instances
                = SumValues(d.instances_by_state, DOMAIN d.instances_by_state)
           /\ d.total_instances
                = SumValues(d.instances_by_type, DOMAIN d.instances_by_type)
           /\ d.total_instances = ListedRecords(d.instances_by_region)

\* an analysis in which a region raised after an instance was listed, and
\* another instance was listed in the next region
C30_Witness ==
    /\ ReturnedFrom(AnalyzedCall)
    /\ Regions[1] \in args.raised
    /\ Len(result.value.instances_by_region[Regions[1]]) > 0
    /\ Len(result.value.instances_by_region[Regions[2]]) > 0
    /\ result.value.instances_by_state.other > 0

====
